---------------------------- MODULE Spec2Model ----------------------------
(***************************************************************************)
(* A state-machine model of the group-call client of                       *)
(* src/rust/src/core/group_call.rs: one record per Call holding the fields  *)
(* of `State`, the process-wide busy flag shared by all Calls, and one      *)
(* action per actor job (public command, SFU response, ICE event, RTP or    *)
(* signaling message).  Each handler is a function from the state before    *)
(* the job to the state after it; `out` is the list of observer callbacks   *)
(* and external calls the job made, in order.                               *)
(***************************************************************************)
EXTENDS Integers, Sequences, FiniteSets, TLC

VARIABLES calls, busy, now

vars == <<calls, busy, now>>

-----------------------------------------------------------------------------
(* Bounds of the model *)

\* Number of Calls sharing the busy flag.
NumCalls == 2
\* Join requests one Call may issue.
MaxJoins == 2
\* Media keys a Call may receive over signaling.
MaxKeysReceived == 2
\* Fresh random send secrets a Call may generate after construction.
MaxRotations == 2
\* Steps one send secret may be ratcheted.
MaxRatchetSteps == 2

\* RTP timestamps of the data messages received run from 0 to this.
MaxTimestamp == 2

CallIds == 1..NumCalls

-----------------------------------------------------------------------------
(* Option values: <<>> is None, <<x>> is Some(x) *)

None == <<>>
Some(x) == <<x>>
IsSome(o) == Len(o) > 0
IsNone(o) == Len(o) = 0
Unwrap(o) == o[1]

-----------------------------------------------------------------------------
(* Program constants; durations are in milliseconds *)

RTP_DATA_PAYLOAD_TYPE == 101
RTP_DATA_THROUGH_SFU_SSRC_OFFSET == 13
RTP_DATA_TO_SFU_SSRC == 1
MEDIA_SEND_KEY_ROTATION_DELAY_SECS == 3
\* Send rates, in kbps.
ALL_ALONE_MAX_SEND_RATE == 1
SMALL_CALL_MAX_SEND_RATE == 1000
LARGE_CALL_MAX_SEND_RATE == 671
SCREENSHARE_MIN_SEND_RATE == 2000
SCREENSHARE_START_SEND_RATE == 2000
SCREENSHARE_MAX_SEND_RATE == 5000
\* The largest call compute_send_rates treats as small.
SMALL_CALL_MAX_DEVICES == 7
\* Values of frame_crypto::RatchetCounter (u8).
U8 == 256
TICK_INTERVAL == 200
HEARTBEAT_INTERVAL == 1000
STATS_INTERVAL == 10000
STATS_INITIAL_OFFSET == 2000
MEMBERSHIP_PROOF_REQUEST_INTERVAL == 86400000
\* Literals of tick and maybe_request_remote_devices.
TICK_PEEK_MAX_AGE == 10000
PEEK_RETRY_AFTER == 5000
\* Width of the low and of the high half of a u32 sequence number.
U16 == 65536

\* The local user (TestClient::new passes it as self_uuid).
SelfUser == "u1"

-----------------------------------------------------------------------------
(* Enum values.  Every variant of one enum is a record of the same shape. *)

ConnectionStates == {"NotConnected", "Connecting", "Connected", "Reconnecting"}

NotJoined(ring_id) == [tag |-> "NotJoined", ring_id |-> ring_id, demux_id |-> 0]
Joining == [tag |-> "Joining", ring_id |-> None, demux_id |-> 0]
Joined(demux_id) == [tag |-> "Joined", ring_id |-> None, demux_id |-> demux_id]

\* DheState: the client secret is named by the join request that made it,
\* the negotiated keys by that secret and the request the server answered.
DheNotYetStarted == [tag |-> "NotYetStarted", secret |-> 0, server |-> 0]
DheWaiting(secret) == [tag |-> "WaitingForServerPublicKey", secret |-> secret, server |-> 0]
DheNegotiated(secret, server) == [tag |-> "Negotiated", secret |-> secret, server |-> server]

RotationApplied == [tag |-> "Applied", secret |-> 0, needs_another_rotation |-> FALSE]
RotationPending(secret, again) ==
    [tag |-> "Pending", secret |-> secret, needs_another_rotation |-> again]

ReqWaitingForMembershipProof ==
    [tag |-> "WaitingForMembershipProof", at |-> 0, should_request_again |-> FALSE]
ReqNeverRequested == [tag |-> "NeverRequested", at |-> 0, should_request_again |-> FALSE]
ReqRequested(at, again) == [tag |-> "Requested", at |-> at, should_request_again |-> again]
ReqUpdated(at) == [tag |-> "Updated", at |-> at, should_request_again |-> FALSE]
ReqFailed(at) == [tag |-> "Failed", at |-> at, should_request_again |-> FALSE]

NoRing == [hex |-> <<>>, sha |-> <<>>]
RingUnknown == [tag |-> "Unknown", ring_id |-> NoRing, recipient |-> None]
PermittedToRing(ring_id) == [tag |-> "PermittedToRing", ring_id |-> ring_id, recipient |-> None]
WantsToRing(recipient) == [tag |-> "WantsToRing", ring_id |-> NoRing, recipient |-> recipient]
HasSentRing(ring_id) == [tag |-> "HasSentRing", ring_id |-> ring_id, recipient |-> None]
NotPermittedToRing == [tag |-> "NotPermittedToRing", ring_id |-> NoRing, recipient |-> None]

\* A u32 counter kept as two 16-bit halves; wrapping_add(1) and `as u16`.
U32(hi, lo) == [hi |-> hi, lo |-> lo]
WrappingAdd1(n) == IF n.lo + 1 < U16 THEN U32(n.hi, n.lo + 1)
                   ELSE U32((n.hi + 1) % U16, 0)
AsU16(n) == n.lo

-----------------------------------------------------------------------------
(* Construction: Client::start *)

InitialCall(kind, ring_id) ==
    [ kind |-> kind,
      self_uuid |-> Some(SelfUser),
      connection_state |-> "NotConnected",
      join_state |-> NotJoined(ring_id),
      remote_devices |-> <<>>,
      has_ever_been_participating_client |-> FALSE,
      dhe_state |-> DheNotYetStarted,
      remote_devices_request_state |->
          IF kind = "SignalGroup" THEN ReqWaitingForMembershipProof
          ELSE ReqNeverRequested,
      last_peek_info |-> None,
      known_members |-> {},
      joined_members |-> {},
      pending_users_signature |-> 0,
      sfu_info |-> None,
      \* SfuClient: the membership proof it was given.
      membership_proof |-> None,
      rtp_data_to_sfu_next_seqnum |-> U32(0, 1),
      rtp_data_through_sfu_next_seqnum |-> U32(0, 1),
      next_heartbeat_time |-> None,
      next_stats_time |-> None,
      audio_levels_interval |-> None,
      next_audio_levels_time |-> None,
      next_membership_proof_request_time |-> None,
      \* frame_crypto::Context: the send ratchet and the receive secrets.
      send_counter |-> 0,
      send_secret |-> [base |-> 0, step |-> 0],
      receive_secrets |-> {},
      pending_media_receive_keys |-> <<>>,
      media_send_key_rotation_state |-> RotationApplied,
      video_requests |-> None,
      on_demand_video_request_sent_since_last_heartbeat |-> FALSE,
      send_rates |-> [min |-> None, start |-> None, max |-> None],
      send_rates_override |-> None,
      sharing_screen |-> None,
      outgoing_ring_state |-> RingUnknown,
      speaker_rtp_timestamp |-> None,
      \* HashMap<DemuxId, u16>, a function of the demux ids it holds.
      forwarding_videos |-> [demux_id \in {} |-> 0],
      \* PeerConnectionObserverImpl: the height of the last frame of a track.
      last_height_by_track_id |-> [track_id \in {} |-> 0],
      \* PeerConnection: closed, and media enabled, as the client left them.
      pc_closed |-> FALSE,
      \* Actor: stopped, the delayed jobs queued on it, and the join
      \* requests the SFU has not answered yet.
      stopped |-> FALSE,
      ticks_scheduled |-> 0,
      delayed |-> <<>>,
      join_requests |-> {},
      joins_issued |-> 0,
      secrets_generated |-> 0,
      keys_received |-> 0,
      \* The shared busy flag as the running job sees it, what the running
      \* job has emitted so far, in order, and what the Call has emitted
      \* over its life: the reasons of handle_ended, and whether an
      \* observer callback followed a handle_ended.  Whether a roster update
      \* has found the device of a media key stored for later.  The media
      \* send keys sent over signaling, by recipient.
      busy |-> FALSE,
      out |-> <<>>,
      ended |-> <<>>,
      callback_after_ended |-> FALSE,
      stored_key_found_its_device |-> FALSE,
      media_keys_sent |-> {},
      \* The joined members of the last handle_peek_changed.
      reported_joined_members |-> {},
      \* The send rates last given to the peer connection.
      send_rates_in_force |-> None,
      \* A VideoRequestMessage was sent since the last heartbeat tick.
      video_request_sent |-> FALSE,
      \* The demux id of the last SpeakerTimeChanged.
      last_new_speaker |-> None,
      \* Which of the history variables below are kept ("rings", "peeks",
      \* "cancels", "keys"): the Call has sent a RingIntention of type Ring;
      \* when the Call last asked the SFU for the roster; the ring ids of
      \* the RingIntentions of type Cancelled the Call has sent; the users
      \* sent a media send key since the last join request, with the demux
      \* id of the key.
      history |-> {},
      ring_sent |-> FALSE,
      last_peek_at |-> None,
      cancelled |-> {},
      keys_since_join |-> {} ]

\* The Call, with the history of its rings or of its peeks kept.
WithHistory(call, of) == [call EXCEPT !.history = {of}]

\* The methods of trait Observer.
ObserverCallbacks ==
    { "request_membership_proof", "request_group_members",
      "handle_connection_state_changed", "handle_network_route_changed",
      "handle_join_state_changed", "handle_remote_devices_changed",
      "handle_peek_changed", "send_signaling_message",
      "send_signaling_message_to_group", "handle_send_rates_changed",
      "handle_incoming_video_frame", "handle_audio_levels",
      "handle_reactions", "handle_raised_hands", "handle_ended" }

\* One emitted event: a callback (or a call on a collaborator) and its argument.
Event(cb, arg) == [cb |-> cb, arg |-> arg]

\* The call as the running job and the life of the Call record it.
EmitEvent(s, cb, arg) ==
    [s EXCEPT !.out = Append(@, Event(cb, arg)),
              !.ended = IF cb = "handle_ended" /\ Len(@) < 3 THEN Append(@, arg) ELSE @,
              !.callback_after_ended =
                  @ \/ (cb \in ObserverCallbacks /\ Len(s.ended) > 0),
              !.media_keys_sent =
                  IF cb = "send_signaling_message" /\ arg.message.type = "MediaKey"
                  THEN @ \cup {[to |-> arg.to, secret |-> arg.message.secret]}
                  ELSE @,
              !.reported_joined_members =
                  IF cb = "handle_peek_changed" THEN arg.joined_members ELSE @,
              !.send_rates_in_force =
                  IF cb = "peer_connection.set_send_rates" THEN Some(arg) ELSE @,
              !.video_request_sent =
                  @ \/ (/\ cb = "peer_connection.send_rtp"
                         /\ arg.ssrc = RTP_DATA_TO_SFU_SSRC
                         /\ arg.payload = "VideoRequest"),
              !.last_new_speaker =
                  IF cb = "handle_remote_devices_changed" /\ arg.reason = "SpeakerTimeChanged"
                  THEN Some(arg.demux_id)
                  ELSE @]

\* The call as the history that the Call keeps records it.
KeepHistory(s, cb, arg) ==
    [s EXCEPT !.ring_sent =
                  @ \/ ("rings" \in s.history /\ cb = "send_signaling_message_to_group"
                           /\ arg.type = "Ring"),
              !.last_peek_at =
                  IF "peeks" \in s.history /\ cb = "sfu_client.peek" THEN Some(now) ELSE @,
              !.cancelled =
                  IF "cancels" \in s.history /\ cb = "send_signaling_message_to_group"
                       /\ arg.type = "Cancelled"
                  THEN @ \cup {arg.ring_id}
                  ELSE @,
              !.keys_since_join =
                  IF "keys" \notin s.history THEN @
                  ELSE IF cb = "sfu_client.join" THEN {}
                  ELSE IF cb = "send_signaling_message" /\ arg.message.type = "MediaKey"
                  THEN @ \cup {[to |-> arg.to, demux_id |-> arg.message.demux_id]}
                  ELSE @]

Emit(s, cb, arg) ==
    IF s.history = {} THEN EmitEvent(s, cb, arg)
    ELSE KeepHistory(EmitEvent(s, cb, arg), cb, arg)

set_connection_state_and_notify_observer(s, connection_state) ==
    Emit([s EXCEPT !.connection_state = connection_state],
         "handle_connection_state_changed", connection_state)

set_join_state_and_notify_observer(s, join_state) ==
    Emit([s EXCEPT !.join_state = join_state],
         "handle_join_state_changed", join_state)

\* take_busy returns whether it took the flag; the state after it is
\* after_take_busy.
take_busy(s) == ~s.busy
after_take_busy(s) == [s EXCEPT !.busy = TRUE]

release_busy(s) == [s EXCEPT !.busy = FALSE]

-----------------------------------------------------------------------------
(* Polling the SFU for the roster *)

\* maybe_request_remote_devices, had it asked again as soon as five seconds
\* have passed.
maybe_request_remote_devices_at_five_seconds(s, max_age, rerequest_if_pending) ==
    LET st == s.remote_devices_request_state
        should_request_now ==
            CASE st.tag = "WaitingForMembershipProof" -> FALSE
              [] st.tag = "NeverRequested" -> TRUE
              [] st.tag = "Requested" -> now >= st.at + PEEK_RETRY_AFTER
              [] st.tag = "Updated" -> now >= st.at + max_age
              [] st.tag = "Failed" -> now >= st.at + PEEK_RETRY_AFTER
    IN IF should_request_now
       THEN [Emit(s, "sfu_client.peek", None)
               EXCEPT !.remote_devices_request_state = ReqRequested(now, FALSE)]
       ELSE IF rerequest_if_pending /\ st.tag = "Requested"
            THEN [s EXCEPT !.remote_devices_request_state = ReqRequested(st.at, TRUE)]
            ELSE s

maybe_request_remote_devices(s, max_age, rerequest_if_pending) ==
    LET st == s.remote_devices_request_state
        should_request_now ==
            CASE st.tag = "WaitingForMembershipProof" -> FALSE
              [] st.tag = "NeverRequested" -> TRUE
              [] st.tag = "Requested" -> now > st.at + PEEK_RETRY_AFTER
              [] st.tag = "Updated" -> now >= st.at + max_age
              [] st.tag = "Failed" -> now > st.at + PEEK_RETRY_AFTER
    IN IF should_request_now
       THEN [Emit(s, "sfu_client.peek", None)
               EXCEPT !.remote_devices_request_state = ReqRequested(now, FALSE)]
       ELSE IF rerequest_if_pending /\ st.tag = "Requested"
            THEN [s EXCEPT !.remote_devices_request_state = ReqRequested(st.at, TRUE)]
            ELSE s

request_remote_devices_as_soon_as_possible(s) ==
    maybe_request_remote_devices(s, 0, TRUE)

request_remote_devices_from_sfu_if_older_than(s, max_age) ==
    maybe_request_remote_devices(s, max_age, FALSE)

handle_remote_device_joined_or_left(s) == request_remote_devices_as_soon_as_possible(s)

-----------------------------------------------------------------------------
(* Data over RTP *)

\* A frame as frame_crypto encrypts it: the ratchet counter and the secret
\* it was encrypted under.
encrypt_data(s, message) ==
    [counter |-> s.send_counter, secret |-> s.send_secret, plaintext |-> message]

broadcast_data_through_sfu(s, message) ==
    IF s.join_state.tag = "Joined"
    THEN LET seqnum == s.rtp_data_through_sfu_next_seqnum
         IN Emit([s EXCEPT !.rtp_data_through_sfu_next_seqnum = WrappingAdd1(seqnum)],
                 "peer_connection.send_rtp",
                 [pt |-> RTP_DATA_PAYLOAD_TYPE,
                  ssrc |-> s.join_state.demux_id + RTP_DATA_THROUGH_SFU_SSRC_OFFSET,
                  seqnum |-> AsU16(seqnum),
                  timestamp |-> seqnum,
                  payload |-> encrypt_data(s, message)])
    ELSE s

\* send_data_to_sfu, had it sent in any join state.
send_data_to_sfu_in_any_join_state(s, message) ==
    LET seqnum == s.rtp_data_to_sfu_next_seqnum
    IN Emit([s EXCEPT !.rtp_data_to_sfu_next_seqnum = WrappingAdd1(seqnum)],
            "peer_connection.send_rtp",
            [pt |-> RTP_DATA_PAYLOAD_TYPE,
             ssrc |-> RTP_DATA_TO_SFU_SSRC,
             seqnum |-> AsU16(seqnum),
             timestamp |-> seqnum,
             payload |-> message])

send_data_to_sfu(s, message) ==
    IF s.join_state.tag = "Joined"
    THEN LET seqnum == s.rtp_data_to_sfu_next_seqnum
         IN Emit([s EXCEPT !.rtp_data_to_sfu_next_seqnum = WrappingAdd1(seqnum)],
                 "peer_connection.send_rtp",
                 [pt |-> RTP_DATA_PAYLOAD_TYPE,
                  ssrc |-> RTP_DATA_TO_SFU_SSRC,
                  seqnum |-> AsU16(seqnum),
                  timestamp |-> seqnum,
                  payload |-> message])
    ELSE s

send_heartbeat(s) == broadcast_data_through_sfu(s, "Heartbeat")

find_by_demux_id(remote_devices, demux_id) ==
    {i \in 1..Len(remote_devices) : remote_devices[i].demux_id = demux_id}

\* The roster has the device of the demux id, and it is a device of the user.
HasDeviceOf(remote_devices, demux_id, user_id) ==
    \E i \in find_by_demux_id(remote_devices, demux_id) : remote_devices[i].user_id = user_id

send_video_requests_to_sfu(s) ==
    IF IsSome(s.video_requests) THEN send_data_to_sfu(s, "VideoRequest") ELSE s

send_leave_to_sfu(s) == send_data_to_sfu(send_data_to_sfu(s, "Leave"), "Leave")

\* A HashSet iterates in an unspecified order; the model fixes one.
RECURSIVE SeqOfUsers(_)
SeqOfUsers(S) == IF S = {} THEN <<>>
                 ELSE LET x == CHOOSE y \in S : TRUE
                      IN <<x>> \o SeqOfUsers(S \ {x})

\* One send_signaling_message per user of a list.
RECURSIVE SendToUsers(_, _, _)
SendToUsers(s, users, message) ==
    IF users = <<>> THEN s
    ELSE SendToUsers(Emit(s, "send_signaling_message",
                          [to |-> Head(users), message |-> message]),
                     Tail(users), message)

\* send_leaving_through_sfu_and_over_signaling with the broadcast repeated.
send_leaving_twice_through_sfu_and_over_signaling(s, local_demux_id) ==
    SendToUsers(broadcast_data_through_sfu(broadcast_data_through_sfu(s, "Leaving"),
                                           "Leaving"),
                SeqOfUsers(s.joined_members),
                [type |-> "Leaving", demux_id |-> local_demux_id])

send_leaving_through_sfu_and_over_signaling(s, local_demux_id) ==
    SendToUsers(broadcast_data_through_sfu(s, "Leaving"),
                SeqOfUsers(s.joined_members),
                [type |-> "Leaving", demux_id |-> local_demux_id])

\* cancel_full_group_ring_if_needed, had it cancelled whatever ring id the
\* ring state holds.
cancel_ring_of_any_state(s) ==
    IF s.outgoing_ring_state.tag \in {"HasSentRing", "PermittedToRing"}
    THEN Emit(s, "send_signaling_message_to_group",
              [type |-> "Cancelled", ring_id |-> s.outgoing_ring_state.ring_id])
    ELSE s

cancel_full_group_ring_if_needed(s) ==
    IF s.outgoing_ring_state.tag = "HasSentRing"
    THEN Emit(s, "send_signaling_message_to_group",
              [type |-> "Cancelled", ring_id |-> s.outgoing_ring_state.ring_id])
    ELSE s


-----------------------------------------------------------------------------
(* The periodic tick *)

Due(t) == IsSome(t) /\ now >= Unwrap(t)

tick_heartbeat(s) ==
    IF Due(s.next_heartbeat_time)
    THEN [send_video_requests_to_sfu(send_heartbeat(s))
            EXCEPT !.on_demand_video_request_sent_since_last_heartbeat = FALSE,
                   !.next_heartbeat_time = Some(now + HEARTBEAT_INTERVAL),
                   !.video_request_sent = FALSE]
    ELSE s

tick_stats(s) ==
    IF Due(s.next_stats_time)
    THEN [Emit(s, "peer_connection.get_stats", None)
            EXCEPT !.next_stats_time = Some(now + STATS_INTERVAL)]
    ELSE s

tick_audio_levels(s) ==
    IF IsSome(s.audio_levels_interval) /\ Due(s.next_audio_levels_time)
    THEN [Emit(s, "handle_audio_levels", None)
            EXCEPT !.next_audio_levels_time = Some(now + Unwrap(s.audio_levels_interval))]
    ELSE s

tick_membership_proof(s) ==
    IF s.kind = "SignalGroup" /\ Due(s.next_membership_proof_request_time)
    THEN [Emit(s, "request_membership_proof", None)
            EXCEPT !.next_membership_proof_request_time =
                       Some(now + MEMBERSHIP_PROOF_REQUEST_INTERVAL)]
    ELSE s

tick(s) ==
    [tick_membership_proof(tick_audio_levels(tick_stats(tick_heartbeat(
         request_remote_devices_from_sfu_if_older_than(s, TICK_PEEK_MAX_AGE)))))
       EXCEPT !.ticks_scheduled = @ + 1]

-----------------------------------------------------------------------------
(* connect, join, leave, disconnect *)

request_membership_proof(s) ==
    IF s.kind = "SignalGroup"
    THEN [Emit(s, "request_membership_proof", None)
            EXCEPT !.next_membership_proof_request_time =
                       Some(now + MEMBERSHIP_PROOF_REQUEST_INTERVAL)]
    ELSE s

request_group_members(s) ==
    IF s.kind = "SignalGroup" THEN Emit(s, "request_group_members", None) ELSE s

connect(s) ==
    IF s.connection_state = "NotConnected"
    THEN tick(request_group_members(request_membership_proof(
             [set_connection_state_and_notify_observer(s, "Connecting")
                EXCEPT !.next_heartbeat_time = Some(now),
                       !.next_audio_levels_time = Some(now)])))
    ELSE s

send_leaving_and_leave_if_joined(s) ==
    IF s.join_state.tag = "Joined"
    THEN send_leave_to_sfu(
             send_leaving_through_sfu_and_over_signaling(s, s.join_state.demux_id))
    ELSE s

leave_if_joining_or_joined(s) ==
    IF s.join_state.tag = "NotJoined" THEN s
    ELSE [set_join_state_and_notify_observer(
              send_leaving_and_leave_if_joined(release_busy(
                  Emit(Emit(s, "peer_connection.set_outgoing_media_enabled", FALSE),
                       "peer_connection.set_incoming_media_enabled", FALSE))),
              NotJoined(None))
            EXCEPT !.next_heartbeat_time = None,
                   !.next_stats_time = None,
                   !.next_audio_levels_time = None,
                   !.next_membership_proof_request_time = None,
                   !.has_ever_been_participating_client = FALSE]

leave_inner(s) == leave_if_joining_or_joined(cancel_full_group_ring_if_needed(s))

\* Actor::stopper().stop_all_without_joining(): the actor runs no job after
\* the one that stopped it.
stop_all_without_joining(s) == [s EXCEPT !.stopped = TRUE]

leave_if_needed(s) ==
    IF s.join_state.tag \in {"Joining", "Joined"} THEN leave_inner(s) ELSE s

close_and_stop(s) ==
    stop_all_without_joining(
        set_connection_state_and_notify_observer(
            [Emit(s, "peer_connection.close", None) EXCEPT !.pc_closed = TRUE],
            "NotConnected"))

\* end, had it not looked at the connection state and not stopped the actor.
end_whatever_the_connection_state(s, reason) ==
    Emit([close_and_stop(leave_if_needed(s)) EXCEPT !.stopped = FALSE],
         "handle_ended", reason)

end_if_connected(s, reason) ==
    IF s.connection_state = "NotConnected" THEN s
    ELSE Emit(close_and_stop(s), "handle_ended", reason)

end(s, reason) == end_if_connected(leave_if_needed(s), reason)

accept_ring_if_needed(s, ring_id) ==
    IF IsSome(ring_id) /\ IsSome(s.self_uuid)
    THEN Emit(s, "send_signaling_message",
              [to |-> Unwrap(s.self_uuid),
               message |-> [type |-> "RingResponse", ring_id |-> Unwrap(ring_id),
                            response |-> "Accepted"]])
    ELSE s

\* PeekInfo::device_count (lite::sfu): the devices of the peek, with or
\* without a user id.
device_count(peek_info) == Len(peek_info.devices)

\* device_count >= max_devices.unwrap_or(u32::MAX): no roster of the model
\* has u32::MAX devices.
is_full(peek_info) ==
    IsSome(peek_info.max_devices) /\ device_count(peek_info) >= Unwrap(peek_info.max_devices)

start_joining(s, ring_id, secret) ==
    [Emit(request_membership_proof(
              accept_ring_if_needed(set_join_state_and_notify_observer(s, Joining), ring_id)),
          "sfu_client.join", secret)
       EXCEPT !.dhe_state = DheWaiting(secret),
              !.joins_issued = secret,
              !.join_requests = @ \cup {secret}]

join(s) ==
    IF s.join_state.tag /= "NotJoined" THEN s
    ELSE IF IsSome(s.last_peek_info) /\ is_full(Unwrap(s.last_peek_info))
    THEN end(s, "HasMaxDevices")
    ELSE IF take_busy(s)
    THEN start_joining(after_take_busy(s), s.join_state.ring_id, s.joins_issued + 1)
    ELSE end(s, "CallManagerIsBusy")

disconnect(s) == end(s, "DeviceExplicitlyDisconnected")

\* provide_ring_id_if_absent, had it preferred the newer ring.
provide_ring_id_always(s, ring_id) ==
    IF s.join_state.tag = "NotJoined"
    THEN [s EXCEPT !.join_state = NotJoined(Some(ring_id))]
    ELSE s

\* An older ring is preferred to a newer one.
provide_ring_id_if_absent(s, ring_id) ==
    IF s.join_state.tag = "NotJoined" /\ ~IsSome(s.join_state.ring_id)
    THEN [s EXCEPT !.join_state = NotJoined(Some(ring_id))]
    ELSE s

-----------------------------------------------------------------------------
(* Media keys *)

send_media_send_key_to_user_over_signaling(s, recipient_id, local_demux_id, ratchet_counter, secret) ==
    Emit(s, "send_signaling_message",
         [to |-> recipient_id,
          message |-> [type |-> "MediaKey", demux_id |-> local_demux_id,
                       ratchet_counter |-> ratchet_counter, secret |-> secret]])

RECURSIVE SendKeyToUsers(_, _, _, _, _)
SendKeyToUsers(s, users, local_demux_id, ratchet_counter, secret) ==
    IF users = <<>> THEN s
    ELSE SendKeyToUsers(
             send_media_send_key_to_user_over_signaling(
                 s, Head(users), local_demux_id, ratchet_counter, secret),
             Tail(users), local_demux_id, ratchet_counter, secret)

\* frame_crypto::Context::advance_send_ratchet: one step of the ratchet.
advance_send_ratchet(s) ==
    [s EXCEPT !.send_counter = (@ + 1) % U8,
              !.send_secret = [base |-> @.base, step |-> @.step + 1]]

\* frame_crypto::Context::add_receive_secret.
add_receive_secret(s, demux_id, ratchet_counter, secret) ==
    [s EXCEPT !.receive_secrets =
        @ \cup {[demux_id |-> demux_id, ratchet_counter |-> ratchet_counter,
                 secret |-> secret]}]

send_media_send_key_to_users(s, users) ==
    IF s.join_state.tag = "Joined"
    THEN SendKeyToUsers(s, users, s.join_state.demux_id, s.send_counter, s.send_secret)
    ELSE s

advance_media_send_key_and_send_to_users_with_added_devices(s, users_with_added_devices) ==
    send_media_send_key_to_users(advance_send_ratchet(s), users_with_added_devices)

send_pending_media_send_key_to_users_with_added_devices(s, users_with_added_devices) ==
    IF s.join_state.tag = "Joined" /\ s.media_send_key_rotation_state.tag = "Pending"
    THEN SendKeyToUsers(s, users_with_added_devices, s.join_state.demux_id, 0,
                        [base |-> s.media_send_key_rotation_state.secret, step |-> 0])
    ELSE s

\* The users of the remote devices, as a set.
UsersOf(remote_devices) == {remote_devices[i].user_id : i \in 1..Len(remote_devices)}

send_rotated_key_and_schedule(s, secret) ==
    [(IF s.join_state.tag = "Joined"
      THEN SendKeyToUsers(s, SeqOfUsers(UsersOf(s.remote_devices)),
                          s.join_state.demux_id, 0, [base |-> secret, step |-> 0])
      ELSE s)
       EXCEPT !.secrets_generated = secret,
              !.media_send_key_rotation_state = RotationPending(secret, FALSE),
              !.delayed = Append(@, [job |-> "apply_media_send_key",
                                     due |-> now + MEDIA_SEND_KEY_ROTATION_DELAY_SECS * 1000,
                                     secret |-> secret])]

\* The rotation, had it generated a secret whatever is pending.
rotate_media_send_key_whatever_is_pending(s) ==
    send_rotated_key_and_schedule(s, s.secrets_generated + 1)

rotate_media_send_key_and_send_to_users_not_removed(s) ==
    IF s.media_send_key_rotation_state.tag = "Pending"
    THEN [s EXCEPT !.media_send_key_rotation_state =
             RotationPending(s.media_send_key_rotation_state.secret, TRUE)]
    ELSE send_rotated_key_and_schedule(s, s.secrets_generated + 1)

\* The first device of a demux id.
FirstWith(remote_devices, demux_id) ==
    CHOOSE i \in find_by_demux_id(remote_devices, demux_id) :
        \A j \in find_by_demux_id(remote_devices, demux_id) : i <= j

add_media_receive_key(s, i, demux_id, ratchet_counter, secret) ==
    IF ~s.remote_devices[i].media_keys_received
    THEN Emit([add_receive_secret(s, demux_id, ratchet_counter, secret)
                 EXCEPT !.remote_devices[i].media_keys_received = TRUE],
              "handle_remote_devices_changed",
              [reason |-> "MediaKeyReceived", demux_id |-> demux_id])
    ELSE add_receive_secret(s, demux_id, ratchet_counter, secret)

store_media_receive_key_for_later(s, user_id, demux_id, ratchet_counter, secret) ==
    [(IF s.pending_media_receive_keys = <<>> THEN request_group_members(s) ELSE s)
       EXCEPT !.pending_media_receive_keys =
                  Append(@, [user_id |-> user_id, demux_id |-> demux_id,
                             ratchet_counter |-> ratchet_counter, secret |-> secret])]

\* The same, had it taken the key of any user for a known demux id.
add_media_receive_key_of_any_user(s, user_id, demux_id, ratchet_counter, secret) ==
    IF find_by_demux_id(s.remote_devices, demux_id) /= {}
    THEN add_media_receive_key(s, FirstWith(s.remote_devices, demux_id),
                               demux_id, ratchet_counter, secret)
    ELSE store_media_receive_key_for_later(s, user_id, demux_id, ratchet_counter, secret)

add_media_receive_key_or_store_for_later(s, user_id, demux_id, ratchet_counter, secret) ==
    IF find_by_demux_id(s.remote_devices, demux_id) /= {}
    THEN IF s.remote_devices[FirstWith(s.remote_devices, demux_id)].user_id = user_id
         THEN add_media_receive_key(s, FirstWith(s.remote_devices, demux_id),
                                    demux_id, ratchet_counter, secret)
         ELSE s
    ELSE store_media_receive_key_for_later(s, user_id, demux_id, ratchet_counter, secret)

RECURSIVE AddPendingKeys(_, _)
AddPendingKeys(s, keys) ==
    IF keys = <<>> THEN s
    ELSE AddPendingKeys(
             add_media_receive_key_or_store_for_later(
                 s, Head(keys).user_id, Head(keys).demux_id,
                 Head(keys).ratchet_counter, Head(keys).secret),
             Tail(keys))

-----------------------------------------------------------------------------
(* Send rates *)

SendRates(min, start, max) == [min |-> min, start |-> start, max |-> max]

compute_send_rates(joined_member_count, sharing_screen) ==
    IF joined_member_count = 0 THEN SendRates(None, None, Some(ALL_ALONE_MAX_SEND_RATE))
    ELSE IF sharing_screen
    THEN SendRates(Some(SCREENSHARE_MIN_SEND_RATE), Some(SCREENSHARE_START_SEND_RATE),
                   Some(SCREENSHARE_MAX_SEND_RATE))
    ELSE IF joined_member_count <= SMALL_CALL_MAX_DEVICES
    THEN SendRates(None, None, Some(SMALL_CALL_MAX_SEND_RATE))
    ELSE SendRates(None, None, Some(LARGE_CALL_MAX_SEND_RATE))

notify_send_rates_changed(s, send_rates, rates_ok) ==
    IF rates_ok THEN Emit(s, "handle_send_rates_changed", send_rates) ELSE s

\* rates_ok is the result of PeerConnection::set_send_rates.
apply_send_rates(s, send_rates, rates_ok) ==
    IF s.send_rates /= send_rates
    THEN notify_send_rates_changed(
             Emit(Emit(Emit(Emit(s,
                  "peer_connection.set_audio_recording_enabled",
                  send_rates.max /= Some(ALL_ALONE_MAX_SEND_RATE)),
                  "peer_connection.set_audio_playout_enabled",
                  send_rates.max /= Some(ALL_ALONE_MAX_SEND_RATE)),
                  "peer_connection.set_outgoing_media_enabled",
                  send_rates.max /= Some(ALL_ALONE_MAX_SEND_RATE)),
                  "peer_connection.set_send_rates", send_rates),
             send_rates, rates_ok)
    ELSE s

set_send_rates_inner(s, send_rates, rates_ok) ==
    apply_send_rates(s, IF IsSome(s.send_rates_override) THEN Unwrap(s.send_rates_override)
                        ELSE send_rates,
                     rates_ok)

-----------------------------------------------------------------------------
(* The roster: set_peek_result_inner *)

\* HeartbeatState, and HeartbeatState::default.
HeartbeatState(audio_muted, video_muted, presenting, sharing_screen) ==
    [audio_muted |-> audio_muted, video_muted |-> video_muted,
     presenting |-> presenting, sharing_screen |-> sharing_screen]

DefaultHeartbeatState == HeartbeatState(None, None, None, None)

\* RemoteDeviceState::new
RemoteDeviceState(demux_id, user_id, added_time) ==
    [ demux_id |-> demux_id, user_id |-> user_id, media_keys_received |-> FALSE,
      heartbeat_state |-> DefaultHeartbeatState,
      heartbeat_rtp_timestamp |-> None, added_time |-> added_time,
      speaker_time |-> None, leaving_received |-> FALSE, forwarding_video |-> None,
      server_allocated_height |-> 0, client_decoded_height |-> None,
      is_higher_resolution_pending |-> FALSE ]

demux_id_set(remote_devices) ==
    {remote_devices[i].demux_id : i \in 1..Len(remote_devices)}

\* The old device of a demux id, as the map built from the old list holds it:
\* the last one of that demux id.
OldDevice(old, demux_id) ==
    old[CHOOSE i \in find_by_demux_id(old, demux_id) :
            \A j \in find_by_demux_id(old, demux_id) : j <= i]

\* The new list of remote devices: the devices of the peek that are not the
\* local one and have a user id, each keeping its old state if its demux id
\* was known (and not yet taken) with the same user.
RECURSIVE NewRemoteDevices(_, _, _, _)
NewRemoteDevices(devices, old, taken, local_demux_id) ==
    IF devices = <<>> THEN <<>>
    ELSE LET d == Head(devices)
         IN IF d.demux_id = local_demux_id \/ IsNone(d.user_id)
            THEN NewRemoteDevices(Tail(devices), old, taken, local_demux_id)
            ELSE LET known == d.demux_id \in demux_id_set(old) \ taken
                     kept == known /\ OldDevice(old, d.demux_id).user_id = Unwrap(d.user_id)
                     dev == IF kept THEN OldDevice(old, d.demux_id)
                            ELSE RemoteDeviceState(d.demux_id, Unwrap(d.user_id), now)
                 IN <<dev>> \o NewRemoteDevices(Tail(devices), old,
                                                taken \cup {d.demux_id}, local_demux_id)

\* The user ids of the devices of a peek (devices without one are ignored).
UserIdsOf(devices) ==
    {Unwrap(devices[i].user_id) : i \in {j \in 1..Len(devices) : IsSome(devices[j].user_id)}}

\* DefaultHasher of a user id.
UserHash(user_id) ==
    CASE user_id = "u1" -> 11 [] user_id = "u2" -> 23 [] user_id = "u3" -> 47
      [] OTHER -> 95

RECURSIVE SumOfHashes(_)
SumOfHashes(users) ==
    IF users = {} THEN 0
    ELSE LET u == CHOOSE x \in users : TRUE
         IN UserHash(u) + SumOfHashes(users \ {u})

\* PeekInfo::unique_pending_users (lite::sfu) folded with wrapping_add from
\* pending_devices.len().
PendingUsersSignature(peek_info) ==
    Len(peek_info.pending_devices) + SumOfHashes(UserIdsOf(peek_info.pending_devices))

\* The users of the devices whose demux id is in a set, in list order.
UsersWithDemuxIn(remote_devices, demux_ids) ==
    LET idx == {i \in 1..Len(remote_devices) : remote_devices[i].demux_id \in demux_ids}
        F[i \in 0..Len(remote_devices)] ==
            IF i = 0 THEN <<>>
            ELSE IF i \in idx THEN Append(F[i - 1], remote_devices[i].user_id)
            ELSE F[i - 1]
    IN F[Len(remote_devices)]

\* update_remote_devices, had it made every device anew.
update_remote_devices_afresh(s, peek_info) ==
    [s EXCEPT
       !.remote_devices =
           NewRemoteDevices(peek_info.devices, <<>>, {}, s.join_state.demux_id),
       !.has_ever_been_participating_client =
           @ \/ (\E i \in 1..Len(peek_info.devices) :
                    peek_info.devices[i].demux_id = s.join_state.demux_id)]

update_remote_devices(s, peek_info) ==
    [s EXCEPT
       !.remote_devices =
           NewRemoteDevices(peek_info.devices, s.remote_devices, {}, s.join_state.demux_id),
       !.has_ever_been_participating_client =
           @ \/ (\E i \in 1..Len(peek_info.devices) :
                    peek_info.devices[i].demux_id = s.join_state.demux_id)]

\* The peer connection is told of the new demux ids if they changed and the
\* SFU is known.
updates_peer_connection(s, old_demux_ids) ==
    old_demux_ids /= demux_id_set(s.remote_devices) /\ IsSome(s.sfu_info)

set_peer_connection_descriptions(s, old_demux_ids) ==
    IF updates_peer_connection(s, old_demux_ids)
    THEN Emit(s, "peer_connection.set_descriptions", demux_id_set(s.remote_devices))
    ELSE s

notify_demux_ids_changed(s, old_demux_ids) ==
    IF old_demux_ids /= demux_id_set(s.remote_devices)
    THEN Emit(s, "handle_remote_devices_changed",
              [reason |-> "DemuxIdsChanged", demux_id |-> 0])
    ELSE s

\* The same, had it sent the advanced key to the users of all the devices.
send_keys_to_all_users(s, users_with_added_devices) ==
    IF users_with_added_devices /= <<>>
    THEN send_pending_media_send_key_to_users_with_added_devices(
             advance_media_send_key_and_send_to_users_with_added_devices(
                 s, SeqOfUsers(UsersOf(s.remote_devices))),
             users_with_added_devices)
    ELSE s

send_keys_to_users_with_added_devices(s, users_with_added_devices) ==
    IF users_with_added_devices /= <<>>
    THEN send_pending_media_send_key_to_users_with_added_devices(
             advance_media_send_key_and_send_to_users_with_added_devices(
                 s, users_with_added_devices),
             users_with_added_devices)
    ELSE s

rotate_if_a_user_left(s, old_user_ids, new_user_ids) ==
    IF old_user_ids \ new_user_ids /= {}
    THEN rotate_media_send_key_and_send_to_users_not_removed(s)
    ELSE s

\* The roster update, had it left the stored keys where they are.
keep_pending_media_receive_keys(s) == s

retry_pending_media_receive_keys(s) ==
    AddPendingKeys(
        [s EXCEPT !.pending_media_receive_keys = <<>>,
                  !.stored_key_found_its_device =
                      @ \/ \E i \in 1..Len(s.pending_media_receive_keys) :
                              HasDeviceOf(s.remote_devices,
                                          s.pending_media_receive_keys[i].demux_id,
                                          s.pending_media_receive_keys[i].user_id)],
        s.pending_media_receive_keys)

update_send_rates(s, old_demux_ids, rates_ok) ==
    IF Cardinality(demux_id_set(s.remote_devices)) /= Cardinality(old_demux_ids)
    THEN set_send_rates_inner(
             s,
             compute_send_rates(Cardinality(demux_id_set(s.remote_devices)),
                                IsSome(s.sharing_screen) /\ Unwrap(s.sharing_screen)),
             rates_ok)
    ELSE s

\* The roster update, had it left the sent ring to be cancelled.
ring_never_forgotten(s) == s

forget_ring_if_anyone_joined(s) ==
    IF s.remote_devices /= <<>> /\ s.outgoing_ring_state.tag = "HasSentRing"
    THEN [s EXCEPT !.outgoing_ring_state = NotPermittedToRing]
    ELSE s

\* The part of set_peek_result_inner that runs when Joined with negotiated
\* keys, from the new list of remote devices on.  sdp_ok is the result of
\* set_peer_connection_descriptions.  The result says whether the function
\* went on, or returned after end.
reconcile_remote_devices(s, old_demux_ids, old_user_ids, new_user_ids, sdp_ok, rates_ok) ==
    IF updates_peer_connection(s, old_demux_ids) /\ ~sdp_ok
    THEN [went_on |-> FALSE,
          state |-> end(set_peer_connection_descriptions(s, old_demux_ids),
                        "FailedToUpdatePeerConnection")]
    ELSE [went_on |-> TRUE,
          state |->
              forget_ring_if_anyone_joined(
                update_send_rates(
                  retry_pending_media_receive_keys(
                    rotate_if_a_user_left(
                      send_keys_to_users_with_added_devices(
                        notify_demux_ids_changed(
                          set_peer_connection_descriptions(s, old_demux_ids),
                          old_demux_ids),
                        UsersWithDemuxIn(s.remote_devices,
                                         demux_id_set(s.remote_devices) \ old_demux_ids)),
                      old_user_ids, new_user_ids)),
                  old_demux_ids, rates_ok))]

reconcile_if_joined(s, peek_info, old_user_ids, new_user_ids, sdp_ok, rates_ok) ==
    IF s.join_state.tag = "Joined" /\ s.dhe_state.tag = "Negotiated"
    THEN reconcile_remote_devices(update_remote_devices(s, peek_info),
                                  demux_id_set(s.remote_devices),
                                  old_user_ids, new_user_ids, sdp_ok, rates_ok)
    ELSE [went_on |-> TRUE, state |-> s]

\* peek_changed without the signature of the pending users.
peek_changed_whatever_is_pending(s, peek_info) ==
    \/ IsNone(s.last_peek_info)
    \/ s.joined_members /= UserIdsOf(peek_info.devices)
    \/ Unwrap(s.last_peek_info).era_id /= peek_info.era_id

peek_changed(s, peek_info) ==
    \/ IsNone(s.last_peek_info)
    \/ s.joined_members /= UserIdsOf(peek_info.devices)
    \/ Unwrap(s.last_peek_info).era_id /= peek_info.era_id
    \/ s.pending_users_signature /= PendingUsersSignature(peek_info)

\* notify_peek_changed that reports the users of the devices other than the
\* local device of a Joined Call.
notify_peek_changed_without_local_device(s, peek_info) ==
    IF peek_changed(s, peek_info)
    THEN Emit(s, "handle_peek_changed",
              [joined_members |->
                   UserIdsOf(SelectSeq(peek_info.devices,
                                       LAMBDA d : ~(s.join_state.tag = "Joined"
                                                    /\ d.demux_id = s.join_state.demux_id))),
               era_id |-> peek_info.era_id])
    ELSE s

notify_peek_changed(s, peek_info) ==
    IF peek_changed(s, peek_info)
    THEN Emit(s, "handle_peek_changed",
              [joined_members |-> UserIdsOf(peek_info.devices), era_id |-> peek_info.era_id])
    ELSE s

store_peek_info(s, peek_info) ==
    [s EXCEPT !.last_peek_info = Some(peek_info),
              !.joined_members = UserIdsOf(peek_info.devices),
              !.pending_users_signature = PendingUsersSignature(peek_info)]

\* The end of set_peek_result_inner, unless it returned after end.
finish_peek_result(r, peek_info, should_request_again) ==
    IF ~r.went_on THEN r.state
    ELSE IF should_request_again
    THEN request_remote_devices_as_soon_as_possible(store_peek_info(r.state, peek_info))
    ELSE store_peek_info(r.state, peek_info)

\* result is [ok, peek_info]: the PeekResult.
set_peek_result_inner(s, result, sdp_ok, rates_ok) ==
    IF ~result.ok
    THEN [s EXCEPT !.remote_devices_request_state = ReqFailed(now)]
    ELSE finish_peek_result(
             reconcile_if_joined(
                 [notify_peek_changed(s, result.peek_info)
                    EXCEPT !.remote_devices_request_state = ReqUpdated(now),
                           !.joined_members = {}],
                 result.peek_info, s.joined_members, UserIdsOf(result.peek_info.devices),
                 sdp_ok, rates_ok),
             result.peek_info,
             s.remote_devices_request_state.tag = "Requested"
                 /\ s.remote_devices_request_state.should_request_again)

-----------------------------------------------------------------------------
(* Ring ids *)

\* An era id is a sequence of one-character strings.  A RingId is the 64
\* bits of the i64, as 16 hexadecimal digits, or the truncated SHA-256 of
\* the era id, named by the era id it hashes.
HexValue(ch) ==
    CASE ch = "0" -> 0 [] ch = "1" -> 1 [] ch = "2" -> 2 [] ch = "3" -> 3
      [] ch = "4" -> 4 [] ch = "5" -> 5 [] ch = "6" -> 6 [] ch = "7" -> 7
      [] ch = "8" -> 8 [] ch = "9" -> 9
      [] ch \in {"a", "A"} -> 10 [] ch \in {"b", "B"} -> 11 [] ch \in {"c", "C"} -> 12
      [] ch \in {"d", "D"} -> 13 [] ch \in {"e", "E"} -> 14 [] ch \in {"f", "F"} -> 15
      [] OTHER -> 16

IsHex(ch) == HexValue(ch) < 16

\* u64::from_str_radix(era_id, 16) of a 16-byte string: 16 digits, or a
\* plus sign and 15 digits.
ParsesAsHex(era_id) ==
    /\ Len(era_id) = 16
    /\ \A i \in 2..16 : IsHex(era_id[i])
    /\ IsHex(era_id[1]) \/ era_id[1] = "+"

HexDigits(era_id) ==
    [i \in 1..16 |-> IF era_id[i] = "+" THEN 0 ELSE HexValue(era_id[i])]

MinusOne == [i \in 1..16 |-> 15]

\* from_era_id, had it not reserved 0.
from_era_id_keeping_zero(era_id) ==
    IF ParsesAsHex(era_id)
    THEN [hex |-> HexDigits(era_id), sha |-> <<>>]
    ELSE [hex |-> <<>>, sha |-> era_id]

from_era_id(era_id) ==
    IF ParsesAsHex(era_id)
    THEN IF \A i \in 1..16 : HexDigits(era_id)[i] = 0
         THEN [hex |-> MinusOne, sha |-> <<>>]
         ELSE [hex |-> HexDigits(era_id), sha |-> <<>>]
    ELSE [hex |-> <<>>, sha |-> era_id]

send_ring(s, ring_id) ==
    [Emit(s, "send_signaling_message_to_group", [type |-> "Ring", ring_id |-> ring_id])
       EXCEPT !.outgoing_ring_state =
                  IF s.remote_devices = <<>> THEN HasSentRing(ring_id)
                  ELSE NotPermittedToRing]

ring_inner(s, recipient) ==
    CASE s.outgoing_ring_state.tag = "PermittedToRing" ->
           IF IsSome(recipient)
           THEN \* unimplemented!(): the actor's thread panics.
                [s EXCEPT !.stopped = TRUE]
           ELSE send_ring(s, s.outgoing_ring_state.ring_id)
      [] s.outgoing_ring_state.tag = "Unknown" ->
           [s EXCEPT !.outgoing_ring_state = WantsToRing(recipient)]
      [] OTHER -> s

-----------------------------------------------------------------------------
(* The SFU's answer to join *)

\* DheState::negotiate_in_place
negotiate(dhe_state, server) ==
    IF dhe_state.tag = "WaitingForServerPublicKey"
    THEN DheNegotiated(dhe_state.secret, server)
    ELSE dhe_state

\* The Connecting arm.  start_ok is the result of start_peer_connection.
\* The result says whether the handler went on, or returned after end.
start_connection(s, joined, start_ok, rates_ok) ==
    IF s.dhe_state.tag /= "Negotiated"
    THEN [went_on |-> FALSE, state |-> end(s, "FailedToNegotiatedSrtpKeys")]
    ELSE IF ~start_ok
    THEN [went_on |-> FALSE,
          state |-> end(Emit(s, "peer_connection.set_descriptions", {}),
                        "FailedToStartPeerConnection")]
    ELSE [went_on |-> TRUE,
          state |-> [set_send_rates_inner(
                         Emit(s, "peer_connection.set_descriptions", {}),
                         SendRates(None, None, Some(ALL_ALONE_MAX_SEND_RATE)), rates_ok)
                       EXCEPT !.sfu_info = Some(joined.request)]]

notify_if_no_remote_devices(s) ==
    IF s.remote_devices = <<>>
    THEN Emit(s, "handle_remote_devices_changed",
              [reason |-> "DemuxIdsChanged", demux_id |-> 0])
    ELSE s

replay_last_peek_info(s, sdp_ok, rates_ok) ==
    IF IsSome(s.last_peek_info)
    THEN notify_if_no_remote_devices(
             set_peek_result_inner(s, [ok |-> TRUE, peek_info |-> Unwrap(s.last_peek_info)],
                                   sdp_ok, rates_ok))
    ELSE s

notify_join_state(s) == Emit(s, "handle_join_state_changed", s.join_state)

ring_if_wanted(s, previous_ring_state) ==
    IF previous_ring_state.tag = "WantsToRing"
    THEN ring_inner(s, previous_ring_state.recipient)
    ELSE s

\* The ring state of the join response, had it refused the ring when the
\* response names no creator.
update_ring_state_of_any_response(s, creator, era_id) ==
    ring_if_wanted(
        [s EXCEPT !.outgoing_ring_state =
            IF IsSome(creator) /\ IsSome(s.self_uuid) /\ creator = s.self_uuid
            THEN PermittedToRing(from_era_id(era_id))
            ELSE NotPermittedToRing],
        s.outgoing_ring_state)

update_ring_state(s, creator, era_id) ==
    IF IsSome(creator)
    THEN ring_if_wanted(
             [s EXCEPT !.outgoing_ring_state =
                 IF IsSome(s.self_uuid) /\ creator = s.self_uuid
                 THEN PermittedToRing(from_era_id(era_id))
                 ELSE NotPermittedToRing],
             s.outgoing_ring_state)
    ELSE s

\* The Joining arm.
finish_joining(s, joined, sdp_ok, rates_ok) ==
    IF s.join_state.tag = "Joining"
    THEN [Emit(request_remote_devices_as_soon_as_possible(
                   update_ring_state(
                       notify_join_state(
                           replay_last_peek_info(
                               [s EXCEPT !.join_state = Joined(joined.local_demux_id)],
                               sdp_ok, rates_ok)),
                       joined.creator, joined.era_id)),
               "peer_connection.configure_audio_encoders", None)
            EXCEPT !.next_stats_time = Some(now + STATS_INITIAL_OFFSET)]
    ELSE s

finish_joining_if_started(r, joined, sdp_ok, rates_ok) ==
    IF r.went_on THEN finish_joining(r.state, joined, sdp_ok, rates_ok) ELSE r.state

\* joined is [ok, request, local_demux_id, creator, era_id].
on_sfu_client_joined(s, joined, start_ok, sdp_ok, rates_ok) ==
    IF ~joined.ok THEN end(s, "SfuClientFailedToJoin")
    ELSE IF s.connection_state = "Connecting"
    THEN finish_joining_if_started(
             start_connection([s EXCEPT !.dhe_state = negotiate(@, joined.request)],
                              joined, start_ok, rates_ok),
             joined, sdp_ok, rates_ok)
    ELSE finish_joining(s, joined, sdp_ok, rates_ok)

-----------------------------------------------------------------------------
(* ICE, removal by the SFU, and signaling from other devices *)

IceConnectionStates ==
    {"New", "Checking", "Connected", "Completed", "Failed", "Disconnected", "Closed"}

\* The ICE handler, had it taken Checking while Connecting for a connection.
handle_ice_checking_as_connected(s, ice) ==
    LET cs == s.connection_state
    IN CASE cs = "Connecting" /\ ice \in {"Disconnected", "Closed", "Failed"} ->
              end(s, "IceFailedWhileConnecting")
         [] cs = "Connecting" /\ ice \in {"Checking", "Connected", "Completed"} ->
              set_connection_state_and_notify_observer(s, "Connected")
         [] cs = "Connected" /\ ice \in {"Checking", "Disconnected"} ->
              set_connection_state_and_notify_observer(s, "Reconnecting")
         [] cs = "Reconnecting" /\ ice \in {"Connected", "Completed"} ->
              set_connection_state_and_notify_observer(s, "Connected")
         [] cs /= "Connecting" /\ ice \in {"Failed", "Closed"} ->
              end(s, "IceFailedAfterConnected")
         [] OTHER -> s

handle_ice_connection_state_changed(s, ice) ==
    LET cs == s.connection_state
    IN CASE cs = "Connecting" /\ ice \in {"Disconnected", "Closed", "Failed"} ->
              end(s, "IceFailedWhileConnecting")
         [] cs = "Connecting" /\ ice = "Checking" -> s
         [] cs = "Connecting" /\ ice \in {"Connected", "Completed"} ->
              set_connection_state_and_notify_observer(s, "Connected")
         [] cs = "Connected" /\ ice \in {"Checking", "Disconnected"} ->
              set_connection_state_and_notify_observer(s, "Reconnecting")
         [] cs = "Reconnecting" /\ ice \in {"Connected", "Completed"} ->
              set_connection_state_and_notify_observer(s, "Connected")
         [] cs /= "Connecting" /\ ice \in {"Failed", "Closed"} ->
              end(s, "IceFailedAfterConnected")
         [] OTHER -> s

\* RemoteDevices::latest_speaker_demux_id: max_by_key takes the last of the
\* devices of the greatest speaker_time, where None is below every Some.
SpeakerKey(device) == IF IsSome(device.speaker_time) THEN Unwrap(device.speaker_time) + 1 ELSE 0

latest_speaker_demux_id(remote_devices) ==
    IF \A i \in 1..Len(remote_devices) : IsNone(remote_devices[i].speaker_time)
    THEN None
    ELSE Some(remote_devices[
             CHOOSE i \in 1..Len(remote_devices) :
                 \A j \in 1..Len(remote_devices) :
                     \/ SpeakerKey(remote_devices[j]) < SpeakerKey(remote_devices[i])
                     \/ SpeakerKey(remote_devices[j]) = SpeakerKey(remote_devices[i]) /\ j <= i
         ].demux_id)

\* find_by_demux_id_mut: the first device of the demux id.
FirstOfDemuxId(remote_devices, demux_id) ==
    CHOOSE i \in find_by_demux_id(remote_devices, demux_id) :
        \A j \in find_by_demux_id(remote_devices, demux_id) : i <= j

\* The part of handle_speaker_received after the timestamp was recorded.
\* SystemTime::now() is read as the clock of the model.
new_speaker(s, demux_id) ==
    IF find_by_demux_id(s.remote_devices, demux_id) = {} THEN s
    ELSE IF latest_speaker_demux_id(s.remote_devices) = Some(demux_id) THEN s
    ELSE Emit([s EXCEPT !.remote_devices[FirstOfDemuxId(s.remote_devices, demux_id)]
                            .speaker_time = Some(now)],
              "handle_remote_devices_changed",
              [reason |-> "SpeakerTimeChanged", demux_id |-> demux_id])

handle_speaker_received(s, timestamp, demux_id) ==
    IF IsSome(s.speaker_rtp_timestamp) /\ timestamp <= Unwrap(s.speaker_rtp_timestamp)
    THEN s
    ELSE new_speaker([s EXCEPT !.speaker_rtp_timestamp = Some(timestamp)], demux_id)

\* demux_ids_with_video zipped with allocated_heights (each `as u16`) and
\* collected into a HashMap: zip stops at the shorter list, and a later pair
\* of a demux id replaces an earlier one.
ForwardingVideos(demux_ids_with_video, allocated_heights) ==
    LET zipped == {i \in 1..Len(demux_ids_with_video) : i <= Len(allocated_heights)}
    IN [demux_id \in {demux_ids_with_video[i] : i \in zipped} |->
           allocated_heights[CHOOSE i \in zipped :
                                 /\ demux_ids_with_video[i] = demux_id
                                 /\ \A j \in zipped :
                                        demux_ids_with_video[j] = demux_id => j <= i] % U16]

\* The recalculation, had it taken a device without a decoded height as
\* waiting for one.
recalculate_pending_without_decoded_height(device) ==
    [device EXCEPT !.is_higher_resolution_pending =
        \/ IsNone(device.client_decoded_height)
        \/ device.server_allocated_height > Unwrap(device.client_decoded_height)]

\* RemoteDeviceState::recalculate_higher_resolution_pending
recalculate_higher_resolution_pending(device) ==
    [device EXCEPT !.is_higher_resolution_pending =
        device.server_allocated_height >
            (IF IsSome(device.client_decoded_height) THEN Unwrap(device.client_decoded_height)
             ELSE 0)]

\* The body of the loop over the remote devices.
forward_video(device, forwarding_videos) ==
    IF device.demux_id \in DOMAIN forwarding_videos
    THEN recalculate_higher_resolution_pending(
             [device EXCEPT !.forwarding_video = Some(TRUE),
                            !.server_allocated_height = forwarding_videos[device.demux_id]])
    ELSE recalculate_higher_resolution_pending(
             [device EXCEPT !.forwarding_video = Some(FALSE),
                            !.server_allocated_height = 0,
                            !.client_decoded_height = None])

set_forwarding_videos(s, forwarding_videos) ==
    IF s.forwarding_videos /= forwarding_videos
    THEN Emit([s EXCEPT !.remote_devices =
                            [i \in 1..Len(s.remote_devices) |->
                                forward_video(s.remote_devices[i], forwarding_videos)],
                        !.forwarding_videos = forwarding_videos],
              "handle_remote_devices_changed",
              [reason |-> "ForwardedVideosChanged", demux_id |-> 0])
    ELSE s

handle_forwarding_video_received(s, demux_ids_with_video, allocated_heights) ==
    set_forwarding_videos(s, ForwardingVideos(demux_ids_with_video, allocated_heights))

\* The job that handle_incoming_video_frame sends to the actor.
set_client_decoded_height(s, track_id, height) ==
    IF find_by_demux_id(s.remote_devices, track_id) = {} THEN s
    ELSE LET i == FirstOfDemuxId(s.remote_devices, track_id)
             device == s.remote_devices[i]
             decoded == recalculate_higher_resolution_pending(
                            [device EXCEPT !.client_decoded_height = Some(height)])
         IN IF device.client_decoded_height /= Some(height)
                 /\ device.heartbeat_state.video_muted /= Some(TRUE)
            THEN IF decoded.is_higher_resolution_pending /= device.is_higher_resolution_pending
                 THEN Emit([s EXCEPT !.remote_devices[i] = decoded],
                           "handle_remote_devices_changed",
                           [reason |-> "HigherResolutionPendingChanged", demux_id |-> 0])
                 ELSE [s EXCEPT !.remote_devices[i] = decoded]
            ELSE s

\* PeerConnectionObserverImpl::handle_incoming_video_frame: the job is sent
\* if the height is not the one of the last frame of the track.
handle_incoming_video_frame(s, track_id, height) ==
    IF track_id \in DOMAIN s.last_height_by_track_id
         /\ s.last_height_by_track_id[track_id] = height
    THEN s
    ELSE set_client_decoded_height(
             [s EXCEPT !.last_height_by_track_id =
                 [t \in DOMAIN @ \cup {track_id} |-> IF t = track_id THEN height ELSE @[t]]],
             track_id, height)

\* The device once the heartbeat state differs: a muted video clears the
\* decoded height.
with_heartbeat_state(device, heartbeat_state) ==
    [(IF heartbeat_state.video_muted = Some(TRUE)
      THEN recalculate_higher_resolution_pending([device EXCEPT !.client_decoded_height = None])
      ELSE device)
       EXCEPT !.heartbeat_state = heartbeat_state]

\* The heartbeat of a known device, at its place in the list.
apply_heartbeat(s, i, demux_id, timestamp, heartbeat_state) ==
    IF s.remote_devices[i].heartbeat_state /= heartbeat_state
    THEN Emit([s EXCEPT !.remote_devices[i] =
                  with_heartbeat_state(
                      [@ EXCEPT !.heartbeat_rtp_timestamp = Some(timestamp)], heartbeat_state)],
              "handle_remote_devices_changed",
              [reason |-> "HeartbeatStateChanged", demux_id |-> demux_id])
    ELSE [s EXCEPT !.remote_devices[i].heartbeat_rtp_timestamp = Some(timestamp)]

\* handle_heartbeat_received, had it taken heartbeats in any order.
handle_heartbeat_in_any_order(s, demux_id, timestamp, heartbeat) ==
    IF find_by_demux_id(s.remote_devices, demux_id) = {} THEN s
    ELSE apply_heartbeat(s, FirstOfDemuxId(s.remote_devices, demux_id), demux_id, timestamp,
                         HeartbeatState(heartbeat.audio_muted, heartbeat.video_muted,
                                        heartbeat.presenting, heartbeat.sharing_screen))

\* heartbeat is the protobuf message; HeartbeatState::from keeps four of
\* its fields.
handle_heartbeat_received(s, demux_id, timestamp, heartbeat) ==
    IF find_by_demux_id(s.remote_devices, demux_id) = {} THEN s
    ELSE IF timestamp >
              (LET last == s.remote_devices[FirstOfDemuxId(s.remote_devices, demux_id)]
                               .heartbeat_rtp_timestamp
               IN IF IsSome(last) THEN Unwrap(last) ELSE 0)
    THEN apply_heartbeat(s, FirstOfDemuxId(s.remote_devices, demux_id), demux_id, timestamp,
                         HeartbeatState(heartbeat.audio_muted, heartbeat.video_muted,
                                        heartbeat.presenting, heartbeat.sharing_screen))
    ELSE s

\* The job handle_rtp_received sends after the message of a device was
\* handled.
request_devices_if_unknown(s, demux_id) ==
    IF find_by_demux_id(s.remote_devices, demux_id) = {}
    THEN request_remote_devices_as_soon_as_possible(s)
    ELSE s

\* handle_removed_received of a client that never looks at its roster.
handle_removed_as_denied(s) == end(s, "DeniedRequestToJoinCall")

handle_removed_received(s) ==
    IF s.has_ever_been_participating_client THEN end(s, "RemovedFromCall")
    ELSE end(s, "DeniedRequestToJoinCall")

\* The media-key arm of on_signaling_message_received.  key is
\* [demux_id, ratchet_counter, secret, length_ok]; a ratchet counter that
\* does not fit a u8 is ignored.
request_remote_devices_if_unknown(s, demux_id) ==
    IF find_by_demux_id(s.remote_devices, demux_id) = {}
    THEN request_remote_devices_as_soon_as_possible(s)
    ELSE s

on_signaling_message_received(s, sender_user_id, key) ==
    IF ~key.length_ok THEN s
    ELSE request_remote_devices_if_unknown(
             IF key.ratchet_counter < U8
             THEN add_media_receive_key_or_store_for_later(
                      s, sender_user_id, key.demux_id, key.ratchet_counter, key.secret)
             ELSE s,
             key.demux_id)

-----------------------------------------------------------------------------
(* Actor jobs.  A job runs on the state of its Call with the busy flag as *)
(* it is, and runs only while the actor has not been stopped.             *)

Before(c) == [calls[c] EXCEPT !.out = <<>>, !.busy = busy]

\* The state of the Call once the job is over.
Committed(after) == [after EXCEPT !.busy = FALSE, !.out = <<>>]

WithinBounds(after) ==
    /\ after.joins_issued <= MaxJoins
    /\ after.secrets_generated <= MaxRotations
    /\ after.send_secret.step <= MaxRatchetSteps
    /\ after.keys_received <= MaxKeysReceived
    \* A rotation asked for while one is pending generates its secret later.
    /\ (after.media_send_key_rotation_state.tag = "Pending"
            /\ after.media_send_key_rotation_state.needs_another_rotation)
        => after.secrets_generated < MaxRotations

Run(c, after) ==
    /\ ~calls[c].stopped
    /\ \E done \in {after} :
          /\ WithinBounds(done)
          /\ calls' = [calls EXCEPT ![c] = Committed(done)]
          /\ busy' = done.busy
    /\ now' = now

Connect(c) == Run(c, connect(Before(c)))

Join(c) == Run(c, join(Before(c)))

Leave(c) == Run(c, leave_inner(Before(c)))

Disconnect(c) == Run(c, disconnect(Before(c)))

Ring(c) == Run(c, ring_inner(Before(c), None))

\* The SFU answers one of the join requests it has not answered yet.
SfuJoined(c, request, local_demux_id, creator, era_id, start_ok, sdp_ok, rates_ok) ==
    /\ request \in calls[c].join_requests
    /\ LET joined == [ok |-> TRUE, request |-> request, local_demux_id |-> local_demux_id,
                      creator |-> creator, era_id |-> era_id]
           s == [Before(c) EXCEPT !.join_requests = @ \ {request}]
       IN Run(c, on_sfu_client_joined(s, joined, start_ok, sdp_ok, rates_ok))

SfuJoinFailed(c, request) ==
    /\ request \in calls[c].join_requests
    /\ LET joined == [ok |-> FALSE, request |-> request]
           s == [Before(c) EXCEPT !.join_requests = @ \ {request}]
       IN Run(c, on_sfu_client_joined(s, joined, TRUE, TRUE, TRUE))

SetPeekResult(c, result, sdp_ok, rates_ok) ==
    Run(c, set_peek_result_inner(Before(c), result, sdp_ok, rates_ok))

IceConnectionStateChanged(c, ice) ==
    Run(c, handle_ice_connection_state_changed(Before(c), ice))

RemovedReceived(c) ==
    Run(c, handle_removed_received(Before(c)))

MediaKeyReceived(c, sender_user_id, key) ==
    Run(c, on_signaling_message_received(
               [Before(c) EXCEPT !.keys_received = @ + 1], sender_user_id, key))

-----------------------------------------------------------------------------
(* Inputs *)

PeekDevice(demux_id, user_id) == [demux_id |-> demux_id, user_id |-> user_id]

PeekInfo(devices, pending_devices, creator, era_id, max_devices) ==
    [devices |-> devices, pending_devices |-> pending_devices, creator |-> creator,
     era_id |-> era_id, max_devices |-> max_devices]

PeekOk(peek_info) == [ok |-> TRUE, peek_info |-> peek_info]
PeekErr == [ok |-> FALSE, peek_info |-> None]

\* The demux id the SFU gives the local device.
LocalDemuxId == 1

\* The era FakeSfuClient answers with, and the era of all zeros.
Era1 == [i \in 1..16 |-> "1"]
Era0 == [i \in 1..16 |-> "0"]

\* The eras of the join responses.
Eras == {Era1, Era0}

Device2 == PeekDevice(2, Some("u2"))
Device3 == PeekDevice(3, Some("u3"))

-----------------------------------------------------------------------------
(* The life of one Call *)

\* One Call, as constructed.
Init ==
    /\ calls = [c \in {1} |-> InitialCall("SignalGroup", None)]
    /\ busy = FALSE
    /\ now = 0

LifecyclePeeks ==
    { PeekOk(PeekInfo(<<>>, <<>>, None, None, None)),
      PeekOk(PeekInfo(<<Device2>>, <<>>, Some("u2"), Some(Era1), Some(1))),
      PeekOk(PeekInfo(<<Device2>>, <<>>, Some("u2"), Some(Era1), Some(2))) }

\* The creator and the era of a join response: no creator, the local user
\* (with either era), another user.
CreatorsAndEras ==
    { [creator |-> None, era_id |-> Era1], [creator |-> Some("u2"), era_id |-> Era1] }
        \cup { [creator |-> Some(SelfUser), era_id |-> era_id] : era_id \in Eras }

\* The outcomes of a call on the peer connection (start_peer_connection,
\* set_peer_connection_descriptions): it can fail only where the handler
\* makes it.
Outcomes(called) == IF called THEN BOOLEAN ELSE {TRUE}

\* One Call, with every outcome of starting and of updating the peer
\* connection.  PeerConnection::set_send_rates succeeds: its failure only
\* withholds handle_send_rates_changed and leaves the same state.
Next ==
    \E c \in {1} :
        \/ Connect(c)
        \/ Join(c)
        \/ Leave(c)
        \/ Disconnect(c)
        \/ Ring(c)
        \* The handler starts the peer connection while Connecting, and reads
        \* the creator and the era and replays the roster while Joining.
        \/ \E request \in calls[c].join_requests,
                 start_ok \in Outcomes(calls[c].connection_state = "Connecting"),
                 j \in IF calls[c].join_state.tag = "Joining" THEN CreatorsAndEras
                       ELSE {[creator |-> None, era_id |-> Era1]} :
              \E sdp_ok \in Outcomes(start_ok /\ calls[c].join_state.tag = "Joining") :
                  SfuJoined(c, request, LocalDemuxId, j.creator, j.era_id,
                            start_ok, sdp_ok, TRUE)
        \/ \E request \in calls[c].join_requests : SfuJoinFailed(c, request)
        \/ \E result \in LifecyclePeeks :
              \E sdp_ok \in Outcomes(calls[c].join_state.tag = "Joined") :
                  SetPeekResult(c, result, sdp_ok, TRUE)
        \/ \E ice \in IceConnectionStates : IceConnectionStateChanged(c, ice)
        \/ RemovedReceived(c)

Spec == Init /\ [][Next]_vars



-----------------------------------------------------------------------------
(* Properties of the life of one Call *)

\* The events of a job that are a given callback.
Emitted(out, cb) == {i \in 1..Len(out) : out[i].cb = cb}

EmittedWith(out, cb, arg) == {i \in Emitted(out, cb) : out[i].arg = arg}

\* C1: in every execution of one Call, whatever the order of connect, join,
\* leave, disconnect, ICE events, SFU join responses, peek results and
\* Removed, handle_ended is invoked at most once.
C1_EndedAtMostOnce == \A c \in DOMAIN calls : Len(calls[c].ended) <= 1

\* A Call that joined, connected and then ended.
C1_Witness ==
    /\ Len(calls[1].ended) = 1
    /\ calls[1].joins_issued > 0
    /\ calls[1].ticks_scheduled > 0

\* C2: handle_ended is the last callback: no observer callback follows it,
\* not even later in the job that emitted it.
C2_EndedIsLastCallback == \A c \in DOMAIN calls : ~calls[c].callback_after_ended

\* C3 as the specification states it: the first disconnect, whatever the
\* connection and join state, leaves, closes the peer connection, stops the
\* actor and emits handle_ended(DeviceExplicitlyDisconnected) exactly once;
\* every later disconnect emits nothing and changes no state.  A later
\* disconnect follows a first one, which emitted handle_ended: so a
\* disconnect of a Call that has not emitted it is a first one.
C3_AsStated ==
    \A c \in DOMAIN calls :
        ~calls[c].stopped =>
            LET after == disconnect(Before(c))
            IN \/ /\ after.join_state.tag = "NotJoined"
                  /\ after.pc_closed
                  /\ after.stopped
                  /\ Cardinality(Emitted(after.out, "handle_ended")) = 1
                  /\ EmittedWith(after.out, "handle_ended",
                                 "DeviceExplicitlyDisconnected") /= {}
               \/ /\ calls[c].ended /= <<>>
                  /\ after.out = <<>>
                  /\ Committed(after) = calls[c]

\* C3, amended: a disconnect of a Call that is Connecting, Connected or
\* Reconnecting leaves if joining or joined, closes the peer connection,
\* stops the actor and emits handle_ended(DeviceExplicitlyDisconnected)
\* exactly once, as its last callback; a disconnect of a Call that is
\* NotConnected leaves if joining or joined, and neither closes, stops nor
\* emits handle_ended; once the actor is stopped the Call changes no more.
C3_DisconnectOf(c) ==
    LET before == Before(c)
        after == disconnect(before)
        left == before.join_state.tag \in {"Joining", "Joined"}
    IN /\ after.join_state.tag = "NotJoined"
       /\ after.connection_state = "NotConnected"
       /\ left => ~after.busy
       /\ left <=> EmittedWith(after.out, "handle_join_state_changed", NotJoined(None)) /= {}
       /\ IF before.connection_state /= "NotConnected"
          THEN /\ after.pc_closed /\ after.stopped
               /\ Cardinality(Emitted(after.out, "handle_ended")) = 1
               /\ after.out[Len(after.out)].cb = "handle_ended"
               /\ after.out[Len(after.out)].arg = "DeviceExplicitlyDisconnected"
               /\ after.ended = Append(before.ended, "DeviceExplicitlyDisconnected")
          ELSE /\ ~after.pc_closed /\ ~after.stopped
               /\ Emitted(after.out, "handle_ended") = {}
               /\ after.ended = before.ended

C3_Disconnect ==
    /\ [](\A c \in DOMAIN calls : ~calls[c].stopped => C3_DisconnectOf(c))
    /\ [][\A c \in DOMAIN calls : calls[c].stopped => calls'[c] = calls[c]]_vars

\* A Call ended by disconnect while it was joined.
C3_Witness ==
    /\ calls[1].ended = <<"DeviceExplicitlyDisconnected">>
    /\ calls[1].stopped
    /\ calls[1].rtp_data_to_sfu_next_seqnum /= U32(0, 1)

\* The jobs that read or write the connection state: the jobs of Next but
\* ring and the peek results, which touch it only by ending the Call as a
\* failed join, a removal and disconnect do.
NextConnection ==
    \E c \in {1} :
        \/ Connect(c)
        \/ Join(c)
        \/ Leave(c)
        \/ Disconnect(c)
        \* The handler starts the peer connection while Connecting, and reads
        \* the creator and the era and replays the roster while Joining.
        \/ \E request \in calls[c].join_requests,
                 start_ok \in Outcomes(calls[c].connection_state = "Connecting"),
                 j \in IF calls[c].join_state.tag = "Joining" THEN CreatorsAndEras
                       ELSE {[creator |-> None, era_id |-> Era1]} :
              \E sdp_ok \in Outcomes(start_ok /\ calls[c].join_state.tag = "Joining") :
                  SfuJoined(c, request, LocalDemuxId, j.creator, j.era_id,
                            start_ok, sdp_ok, TRUE)
        \/ \E request \in calls[c].join_requests : SfuJoinFailed(c, request)
        \/ \E ice \in IceConnectionStates : IceConnectionStateChanged(c, ice)
        \/ RemovedReceived(c)

SpecConnection == Init /\ [][NextConnection]_vars

\* C4: the connection state changes only as follows: NotConnected to
\* Connecting on connect (connect otherwise changes nothing); Connecting to
\* Connected on ICE Connected or Completed; Connected to Reconnecting on ICE
\* Checking or Disconnected; Reconnecting to Connected on ICE Connected or
\* Completed; any state to NotConnected when the Call ends, with
\* IceFailedWhileConnecting for ICE Disconnected, Closed or Failed while
\* Connecting and IceFailedAfterConnected for ICE Failed or Closed while
\* Connected or Reconnecting.  No other ICE event changes it.
C4_IceOf(c) ==
    \A ice \in IceConnectionStates :
        LET before == Before(c)
            cs == before.connection_state
            after == handle_ice_connection_state_changed(before, ice)
        IN CASE cs = "Connecting" /\ ice \in {"Connected", "Completed"} ->
                  after.connection_state = "Connected" /\ after.ended = before.ended
             [] cs = "Connected" /\ ice \in {"Checking", "Disconnected"} ->
                  after.connection_state = "Reconnecting" /\ after.ended = before.ended
             [] cs = "Reconnecting" /\ ice \in {"Connected", "Completed"} ->
                  after.connection_state = "Connected" /\ after.ended = before.ended
             [] cs = "Connecting" /\ ice \in {"Disconnected", "Closed", "Failed"} ->
                  /\ after.connection_state = "NotConnected"
                  /\ after.ended = Append(before.ended, "IceFailedWhileConnecting")
             [] cs \in {"Connected", "Reconnecting"} /\ ice \in {"Failed", "Closed"} ->
                  /\ after.connection_state = "NotConnected"
                  /\ after.ended = Append(before.ended, "IceFailedAfterConnected")
             [] OTHER -> after.connection_state = cs /\ after.ended = before.ended

C4_ConnectOf(c) ==
    calls[c].connection_state /= "NotConnected" => Committed(connect(Before(c))) = calls[c]

C4_StepOf(c) ==
    LET cs == calls[c].connection_state
        cs2 == calls'[c].connection_state
        IsIce(events) == \E ice \in events :
            calls'[c] = Committed(handle_ice_connection_state_changed(Before(c), ice))
    IN cs /= cs2 =>
          \/ cs = "NotConnected" /\ cs2 = "Connecting"
             /\ calls'[c] = Committed(connect(Before(c)))
          \/ cs = "Connecting" /\ cs2 = "Connected" /\ IsIce({"Connected", "Completed"})
          \/ cs = "Connected" /\ cs2 = "Reconnecting" /\ IsIce({"Checking", "Disconnected"})
          \/ cs = "Reconnecting" /\ cs2 = "Connected" /\ IsIce({"Connected", "Completed"})
          \/ cs2 = "NotConnected" /\ Len(calls'[c].ended) = Len(calls[c].ended) + 1

C4_ConnectionStateChanges ==
    /\ [](\A c \in DOMAIN calls : ~calls[c].stopped => C4_IceOf(c) /\ C4_ConnectOf(c))
    /\ [][\A c \in DOMAIN calls : C4_StepOf(c)]_vars

\* A Call that connected, lost connectivity and is joined meanwhile.
C4_Witness ==
    /\ calls[1].connection_state = "Reconnecting"
    /\ calls[1].join_state.tag = "Joined"






-----------------------------------------------------------------------------
(* Calls that share the busy flag *)

\* Every Call connects, joins, leaves, disconnects, gets its join responses
\* and meets its fatal ends (a failed join, an ICE failure, a removal) in any
\* order, all of them on the one busy flag.
NextBusy ==
    \E c \in CallIds :
        \/ Connect(c)
        \/ Join(c)
        \/ Leave(c)
        \/ Disconnect(c)
        \/ \E request \in calls[c].join_requests :
              SfuJoined(c, request, LocalDemuxId, None, Era1, TRUE, TRUE, TRUE)
        \/ \E request \in calls[c].join_requests : SfuJoinFailed(c, request)
        \/ IceConnectionStateChanged(c, "Failed")
        \/ RemovedReceived(c)

\* The Calls of one call manager, as constructed.
InitBusy ==
    /\ calls = [c \in CallIds |-> InitialCall("SignalGroup", None)]
    /\ busy = FALSE
    /\ now = 0

SpecBusy == InitBusy /\ [][NextBusy]_vars

JoiningOrJoined(c) == calls[c].join_state.tag \in {"Joining", "Joined"}

\* The two parts of C5 about the flag itself: at most one Call is Joining or
\* Joined, and the flag is true exactly while some Call is.
C5_BusyFlag ==
    /\ \A c, d \in DOMAIN calls : JoiningOrJoined(c) /\ JoiningOrJoined(d) => c = d
    /\ busy <=> \E c \in DOMAIN calls : JoiningOrJoined(c)

\* The join job of a Call that is not in the call, run while another Call
\* holds the flag, emits handle_ended(CallManagerIsBusy) and leaves the flag
\* held.
JoinWhileHeldEnds(c) ==
    /\ EmittedWith(join(Before(c)).out, "handle_ended", "CallManagerIsBusy") /= {}
    /\ join(Before(c)).busy

\* C5: for Calls sharing one busy flag, over every interleaving of their
\* join, leave, disconnect, fatal ends and SFU join responses, at most one
\* Call is Joining or Joined, the flag is true exactly while some Call is
\* Joining or Joined, and a join attempted while the flag is held ends that
\* Call with CallManagerIsBusy without clearing the flag of the other Call.
C5_AsStated ==
    /\ C5_BusyFlag
    /\ \A c \in DOMAIN calls :
          busy /\ ~calls[c].stopped /\ ~JoiningOrJoined(c) => JoinWhileHeldEnds(c)

\* The same with the join attempted by a Call that has connected.
C5_WhenConnected ==
    /\ C5_BusyFlag
    /\ \A c \in DOMAIN calls :
          busy /\ ~calls[c].stopped /\ ~JoiningOrJoined(c)
               /\ calls[c].connection_state /= "NotConnected" => JoinWhileHeldEnds(c)

C5_JoinedWhileHeld ==
    \E c \in DOMAIN calls : busy /\ ~JoiningOrJoined(c) /\ calls[c].ended = <<"CallManagerIsBusy">>

-----------------------------------------------------------------------------
(* Joining a full call *)

Full(c) == IsSome(calls[c].last_peek_info) /\ is_full(Unwrap(calls[c].last_peek_info))

\* What a join job left: the call ended with HasMaxDevices, the busy flag
\* not taken, no Joining and no request to the SFU.
EndedWithHasMaxDevices(after) ==
    /\ EmittedWith(after.out, "handle_ended", "HasMaxDevices") /= {}
    /\ ~after.busy
    /\ after.join_state.tag = "NotJoined"
    /\ Emitted(after.out, "sfu_client.join") = {}

\* What a join job left: the join under way.
JoinProceeded(after) ==
    /\ after.join_state.tag = "Joining"
    /\ after.busy
    /\ Emitted(after.out, "sfu_client.join") /= {}
    /\ Emitted(after.out, "handle_ended") = {}

\* C6: a join requested when the last peek info reports a device count
\* greater than or equal to maxDevices ends the call with HasMaxDevices, does
\* not take the busy flag, does not enter Joining and does not invoke the SFU
\* join; when the device count is below maxDevices, or maxDevices is absent,
\* or there is no peek info, the join proceeds (to Joining, the busy flag
\* being free).
C6_AsStated ==
    \A c \in DOMAIN calls :
        ~calls[c].stopped /\ calls[c].join_state.tag = "NotJoined" =>
            IF Full(c) THEN EndedWithHasMaxDevices(join(Before(c)))
            ELSE ~busy => JoinProceeded(join(Before(c)))

\* The same with the join requested of a Call that has connected.
C6_WhenConnected ==
    \A c \in DOMAIN calls :
        ~calls[c].stopped /\ calls[c].join_state.tag = "NotJoined"
            /\ (Full(c) => calls[c].connection_state /= "NotConnected") =>
            IF Full(c) THEN EndedWithHasMaxDevices(join(Before(c)))
            ELSE ~busy => JoinProceeded(join(Before(c)))

C6_EndedFull == \E c \in DOMAIN calls : calls[c].ended = <<"HasMaxDevices">>



-----------------------------------------------------------------------------
(* Ringing the group *)

GroupMessages(out) == Emitted(out, "send_signaling_message_to_group")

GroupMessagesOf(out, type, ring_id) ==
    EmittedWith(out, "send_signaling_message_to_group", [type |-> type, ring_id |-> ring_id])

\* What a job left: one message to the group, the RingIntention of the type
\* and ring id.
SentOnce(after, type, ring_id) ==
    /\ Cardinality(GroupMessages(after.out)) = 1
    /\ GroupMessagesOf(after.out, type, ring_id) /= {}

\* The join response that names the local user the creator leaves a Call
\* that joined permitted to ring with RingId::from_era_id of its era, or
\* with that ring sent if a ring was wanted, or sent and forgotten.
JoinedAsCreator(before, after, era_id) ==
    after.join_state.tag = "Joined" /\ ~after.stopped =>
        IF before.outgoing_ring_state.tag = "WantsToRing"
        THEN /\ SentOnce(after, "Ring", from_era_id(era_id))
             /\ after.outgoing_ring_state =
                    IF after.remote_devices = <<>> THEN HasSentRing(from_era_id(era_id))
                    ELSE NotPermittedToRing
        ELSE /\ GroupMessages(after.out) = {}
             /\ after.outgoing_ring_state = PermittedToRing(from_era_id(era_id))

JoinResponse(request, creator, era_id) ==
    [ok |-> TRUE, request |-> request, local_demux_id |-> LocalDemuxId,
     creator |-> creator, era_id |-> era_id]

\* The jobs of a Call that rings: the jobs of Next but the ICE events of the
\* peer connection, which change the connection state or end the Call as a
\* failed join, a removal and disconnect do (the Call stays Connecting after
\* connect).
NextRinging ==
    \E c \in {1} :
        \/ Connect(c)
        \/ Join(c)
        \/ Leave(c)
        \/ Disconnect(c)
        \/ Ring(c)
        \* The handler starts the peer connection while Connecting, and reads
        \* the creator and the era and replays the roster while Joining.
        \/ \E request \in calls[c].join_requests,
                 start_ok \in Outcomes(calls[c].connection_state = "Connecting"),
                 j \in IF calls[c].join_state.tag = "Joining" THEN CreatorsAndEras
                       ELSE {[creator |-> None, era_id |-> Era1]} :
              \E sdp_ok \in Outcomes(start_ok /\ calls[c].join_state.tag = "Joining") :
                  SfuJoined(c, request, LocalDemuxId, j.creator, j.era_id,
                            start_ok, sdp_ok, TRUE)
        \/ \E request \in calls[c].join_requests : SfuJoinFailed(c, request)
        \/ \E result \in LifecyclePeeks :
              \E sdp_ok \in Outcomes(calls[c].join_state.tag = "Joined") :
                  SetPeekResult(c, result, sdp_ok, TRUE)
        \/ RemovedReceived(c)

SpecRinging == Init /\ [][NextRinging]_vars

C7_JoinOf(c) ==
    calls[c].join_state.tag = "Joining" =>
        \A request \in calls[c].join_requests, era_id \in Eras,
           start_ok \in BOOLEAN, sdp_ok \in BOOLEAN, rates_ok \in BOOLEAN :
            JoinedAsCreator(Before(c),
                            on_sfu_client_joined(
                                Before(c), JoinResponse(request, Some(SelfUser), era_id),
                                start_ok, sdp_ok, rates_ok),
                            era_id)

\* ring(None) of a Call permitted to ring sends one Ring with the ring id of
\* the permission, and remembers it only if the roster is empty.
C7_RingOf(c) ==
    calls[c].outgoing_ring_state.tag = "PermittedToRing" =>
        /\ SentOnce(ring_inner(Before(c), None), "Ring", calls[c].outgoing_ring_state.ring_id)
        /\ ring_inner(Before(c), None).outgoing_ring_state =
               IF calls[c].remote_devices = <<>>
               THEN HasSentRing(calls[c].outgoing_ring_state.ring_id)
               ELSE NotPermittedToRing

\* leave sends one Cancelled with the ring id of the remembered ring, and
\* nothing to the group if no ring is remembered.
C7_LeaveOf(c) ==
    IF calls[c].outgoing_ring_state.tag = "HasSentRing"
    THEN SentOnce(leave_inner(Before(c)), "Cancelled", calls[c].outgoing_ring_state.ring_id)
    ELSE GroupMessages(leave_inner(Before(c)).out) = {}

\* A ring is remembered only while the roster is empty.
C7_RememberedOf(c) ==
    calls[c].outgoing_ring_state.tag = "HasSentRing" /\ ~calls[c].stopped =>
        calls[c].remote_devices = <<>>

\* The permission lasts until the ring or the next join response; the
\* remembered ring lasts until a remote device appears or the next join
\* response, and a Call has left before its next join response.
C7_StepOf(c) ==
    calls'[c].outgoing_ring_state /= calls[c].outgoing_ring_state =>
        CASE calls[c].outgoing_ring_state.tag = "PermittedToRing" ->
               \/ calls[c].join_state.tag = "Joining"
               \/ calls'[c] = Committed(ring_inner(Before(c), None))
          [] calls[c].outgoing_ring_state.tag = "HasSentRing" ->
               \/ calls[c].join_state.tag = "Joining"
               \/ /\ calls'[c].outgoing_ring_state = NotPermittedToRing
                  /\ calls'[c].remote_devices /= <<>>
          [] OTHER -> TRUE

\* C7: when the creator of the call is the local user, ring(None) after the
\* join completes emits exactly one group RingIntention of type Ring whose
\* ring id is RingId::from_era_id of the era id of the join response; a later
\* leave emits exactly one RingIntention of type Cancelled with the same ring
\* id if the roster was empty when the ring was sent and no remote device
\* appeared between the ring and the leave, and no Cancelled if the roster
\* was not empty when the ring was sent or a remote device appeared in
\* between.
C7_Ring ==
    /\ [](\A c \in DOMAIN calls :
             C7_JoinOf(c) /\ C7_RingOf(c) /\ C7_LeaveOf(c) /\ C7_RememberedOf(c))
    /\ [][\A c \in DOMAIN calls : C7_StepOf(c)]_vars

\* The ring of the era of all zeros was sent to an empty call, and the Call
\* has left since.
C7_Witness ==
    \E c \in DOMAIN calls :
        /\ calls[c].outgoing_ring_state = HasSentRing([hex |-> MinusOne, sha |-> <<>>])
        /\ calls[c].join_state.tag = "NotJoined"
        /\ ~calls[c].stopped

-----------------------------------------------------------------------------
(* Media keys and the roster *)

\* A second device of the user of Device2.
Device2b == PeekDevice(4, Some("u2"))

\* The rosters of the peeks: nobody, one user, a second user, a second
\* device of the first user, the first user gone.
KeyPeeks ==
    { PeekOk(PeekInfo(devices, <<>>, None, Some(Era1), None)) :
        devices \in { <<>>, <<Device2>>, <<Device2, Device3>>, <<Device2, Device2b>>,
                      <<Device3>> } }

\* The secret a user made for its own send ratchet, at a step of it.
SecretOf(user_id, step) == [base |-> user_id, step |-> step]

MediaKey(demux_id, ratchet_counter, secret) ==
    [length_ok |-> TRUE, demux_id |-> demux_id, ratchet_counter |-> ratchet_counter,
     secret |-> secret]

\* The media keys received over signaling, each with its authenticated
\* sender: the keys of the users u2 and u3 for their own devices, and the
\* key of u3 sent under the demux id of the device of u2.
KeyMessages ==
    { [sender |-> "u2", key |-> MediaKey(2, 0, SecretOf("u2", 0))],
      [sender |-> "u3", key |-> MediaKey(3, 0, SecretOf("u3", 0))],
      [sender |-> "u3", key |-> MediaKey(2, 0, SecretOf("u3", 0))] }

\* One Call that connects and joins, in either order, while media keys and
\* peek results arrive in any order.
NextKeys ==
    \E c \in {1} :
        \/ Connect(c)
        \/ Join(c)
        \/ \E request \in calls[c].join_requests :
              SfuJoined(c, request, LocalDemuxId, None, Era1, TRUE, TRUE, TRUE)
        \/ \E result \in KeyPeeks : SetPeekResult(c, result, TRUE, TRUE)
        \/ \E m \in KeyMessages : MediaKeyReceived(c, m.sender, m.key)

SpecKeys == Init /\ [][NextKeys]_vars


\* frame_crypto::Context::decrypt of a frame a sender encrypted under its
\* secret at a step of its ratchet: the receiver has a receive secret of the
\* demux id that is that secret, at that step or an earlier one.
CanDecrypt(s, demux_id, secret) ==
    \E rs \in s.receive_secrets :
        /\ rs.demux_id = demux_id
        /\ rs.secret.base = secret.base
        /\ rs.secret.step <= secret.step

\* A receive secret is installed in a step only for a demux id the roster,
\* as the step leaves it, gives to the user whose secret it is.
C8_InstalledOf(c) ==
    \A rs \in calls'[c].receive_secrets \ calls[c].receive_secrets :
        HasDeviceOf(calls'[c].remote_devices, rs.demux_id, rs.secret.base)

\* What a job left of the keys and the roster.
KeysAndRoster(s) ==
    <<s.receive_secrets, s.pending_media_receive_keys, s.remote_devices>>

\* A key for a demux id the roster gives to another user is dropped on
\* arrival: neither installed nor stored, nothing emitted.
C8_DroppedOf(c) ==
    \A m \in KeyMessages :
        /\ find_by_demux_id(calls[c].remote_devices, m.key.demux_id) /= {}
        /\ ~HasDeviceOf(calls[c].remote_devices, m.key.demux_id, m.sender)
        => /\ KeysAndRoster(on_signaling_message_received(Before(c), m.sender, m.key))
                  = KeysAndRoster(calls[c])
           /\ on_signaling_message_received(Before(c), m.sender, m.key).out = <<>>

\* A key stays stored only while the roster does not have its demux id: a
\* roster update that brings the demux id installs the key or drops it.
C8_StoredOf(c) ==
    ~calls[c].stopped =>
        \A i \in 1..Len(calls[c].pending_media_receive_keys) :
            find_by_demux_id(calls[c].remote_devices,
                             calls[c].pending_media_receive_keys[i].demux_id) = {}

\* The key u3 sent under the demux id of the device of u2 is never
\* installed and decrypts nothing, and the frames of u2 decrypt once its
\* key has been received for its device.
C8_GenuineOf(c) ==
    /\ ~CanDecrypt(calls[c], 2, SecretOf("u3", 0))
    /\ \A i \in 1..Len(calls[c].remote_devices) :
          calls[c].remote_devices[i].media_keys_received =>
              CanDecrypt(calls[c], calls[c].remote_devices[i].demux_id,
                         SecretOf(calls[c].remote_devices[i].user_id, 0))

\* C8: a received media key for demux id D from user U is installed as a
\* receive secret only if, at installation time, the roster contains a
\* device with demux id D whose user id is U.  A key whose demux id is in
\* the roster under a different user is dropped and never installed,
\* whether it arrives before or after the genuine key or the roster entry:
\* a user claiming the demux id of another device neither adds nor replaces
\* the receive key of that device, and the frames of the genuine sender
\* still decrypt.
C8_ForgedKeyNeverInstalled ==
    /\ [](\A c \in DOMAIN calls : C8_DroppedOf(c) /\ C8_StoredOf(c) /\ C8_GenuineOf(c))
    /\ [][\A c \in DOMAIN calls :
            /\ C8_InstalledOf(c)
            /\ calls[c].receive_secrets \subseteq calls'[c].receive_secrets]_vars

\* Two keys were received, a roster update found the device of a stored
\* one, and the key of u2 is the only one installed: whatever u3 sent under
\* demux id 2, before or after, was dropped.
C8_Witness ==
    \E c \in DOMAIN calls :
        /\ calls[c].keys_received = 2
        /\ calls[c].stored_key_found_its_device
        /\ calls[c].pending_media_receive_keys = <<>>
        /\ calls[c].receive_secrets =
               {[demux_id |-> 2, ratchet_counter |-> 0, secret |-> SecretOf("u2", 0)]}
        /\ calls[c].remote_devices /= <<>>
        /\ \A i \in 1..Len(calls[c].remote_devices) : calls[c].remote_devices[i].demux_id /= 3


StoredKey(m) ==
    [user_id |-> m.sender, demux_id |-> m.key.demux_id,
     ratchet_counter |-> m.key.ratchet_counter, secret |-> m.key.secret]

\* What the job of a received key left, the demux id not being in the
\* roster: the key stored after the ones stored before, nothing installed.
StoredForLater(before, after, m) ==
    /\ after.pending_media_receive_keys =
           Append(before.pending_media_receive_keys, StoredKey(m))
    /\ after.receive_secrets = before.receive_secrets
    /\ after.remote_devices = before.remote_devices

C9_StoredOf(c) ==
    \A m \in KeyMessages :
        find_by_demux_id(calls[c].remote_devices, m.key.demux_id) = {} =>
            StoredForLater(Before(c),
                           on_signaling_message_received(Before(c), m.sender, m.key), m)

PeekHasDeviceOf(peek_info, demux_id, user_id) ==
    \E i \in 1..Len(peek_info.devices) :
        /\ peek_info.devices[i].demux_id = demux_id
        /\ peek_info.devices[i].user_id = Some(user_id)

\* What a roster update left of a stored key p: installed, its device
\* marked, MediaKeyReceived emitted once for the device, p stored no more.
InstalledByUpdate(after, p) ==
    /\ [demux_id |-> p.demux_id, ratchet_counter |-> p.ratchet_counter,
        secret |-> p.secret] \in after.receive_secrets
    /\ CanDecrypt(after, p.demux_id, p.secret)
    /\ \E i \in find_by_demux_id(after.remote_devices, p.demux_id) :
          after.remote_devices[i].user_id = p.user_id
              /\ after.remote_devices[i].media_keys_received
    /\ Cardinality(EmittedWith(after.out, "handle_remote_devices_changed",
                               [reason |-> "MediaKeyReceived", demux_id |-> p.demux_id])) = 1
    /\ \A i \in 1..Len(after.pending_media_receive_keys) :
          after.pending_media_receive_keys[i] /= p

C9_InstalledOf(c) ==
    calls[c].join_state.tag = "Joined" /\ calls[c].dhe_state.tag = "Negotiated" =>
        \A result \in KeyPeeks, i \in 1..Len(calls[c].pending_media_receive_keys) :
            PeekHasDeviceOf(result.peek_info,
                            calls[c].pending_media_receive_keys[i].demux_id,
                            calls[c].pending_media_receive_keys[i].user_id)
            => InstalledByUpdate(set_peek_result_inner(Before(c), result, TRUE, TRUE),
                                 calls[c].pending_media_receive_keys[i])

\* The frames of a device decrypt only if the roster update or the key job
\* that made them decrypt left the device known with its key received.
C9_DecryptOf(c) ==
    \A m \in KeyMessages :
        CanDecrypt(calls'[c], m.key.demux_id, m.key.secret)
            /\ ~CanDecrypt(calls[c], m.key.demux_id, m.key.secret)
        => \E i \in find_by_demux_id(calls'[c].remote_devices, m.key.demux_id) :
              calls'[c].remote_devices[i].media_keys_received

\* The frames of a device known with its key received decrypt.
C9_DecryptsOf(c) ==
    \A i \in 1..Len(calls[c].remote_devices) :
        calls[c].remote_devices[i].media_keys_received =>
            \E m \in KeyMessages :
                /\ m.sender = calls[c].remote_devices[i].user_id
                /\ m.key.demux_id = calls[c].remote_devices[i].demux_id
                /\ CanDecrypt(calls[c], m.key.demux_id, m.key.secret)

\* C9: a media key received for a demux id not yet in the roster is
\* buffered, and the next roster update applied while Joined that contains
\* that demux id with the same user id installs it, sets mediaKeysReceived of
\* that device and emits MediaKeyReceived exactly once.  A receiver cannot
\* decrypt the frames of a sender before it both knows the device of the
\* sender and has its key, and can decrypt frames encrypted under that key
\* once both have happened.
C9_KeyBeforeRoster ==
    /\ [](\A c \in DOMAIN calls :
             C9_StoredOf(c) /\ C9_InstalledOf(c) /\ C9_DecryptsOf(c)
                 /\ (calls[c].remote_devices = <<>> /\ calls[c].keys_received = 0
                         => calls[c].receive_secrets = {}))
    /\ [][\A c \in DOMAIN calls : C9_DecryptOf(c)]_vars

\* The key of u3 was stored before the roster had its device, and a roster
\* update installed it.
C9_Witness ==
    \E c \in DOMAIN calls :
        /\ calls[c].keys_received = 1
        /\ calls[c].stored_key_found_its_device
        /\ CanDecrypt(calls[c], 3, SecretOf("u3", 0))
        /\ \E i \in find_by_demux_id(calls[c].remote_devices, 3) :
              calls[c].remote_devices[i].media_keys_received

\* The demux ids a job added to the roster.
AddedDemuxIds(before, after) ==
    demux_id_set(after.remote_devices) \ demux_id_set(before.remote_devices)

\* The users that own the devices a job added.
OwnersOfAdded(before, after) ==
    {after.remote_devices[i].user_id :
        i \in {j \in 1..Len(after.remote_devices) :
                  after.remote_devices[j].demux_id \in AddedDemuxIds(before, after)}}

\* The users a job sent a media key to over signaling, the key being of the
\* ratchet counter and the secret.
SentKeyTo(out, ratchet_counter, secret) ==
    {out[i].arg.to :
        i \in {j \in Emitted(out, "send_signaling_message") :
                  /\ out[j].arg.message.type = "MediaKey"
                  /\ out[j].arg.message.ratchet_counter = ratchet_counter
                  /\ out[j].arg.message.secret = secret}}

\* What a roster update left of the send ratchet and sent of it.
KeysSentForAdded(before, after) ==
    IF AddedDemuxIds(before, after) /= {}
    THEN /\ after.send_secret =
                [base |-> before.send_secret.base, step |-> before.send_secret.step + 1]
         /\ after.send_counter = (before.send_counter + 1) % U8
         /\ SentKeyTo(after.out, after.send_counter, after.send_secret)
                = OwnersOfAdded(before, after)
         /\ before.media_send_key_rotation_state.tag = "Pending" =>
                OwnersOfAdded(before, after) \subseteq
                    SentKeyTo(after.out, 0,
                              [base |-> before.media_send_key_rotation_state.secret,
                               step |-> 0])
    ELSE /\ after.send_secret = before.send_secret
         /\ after.send_counter = before.send_counter

C10_PeekOf(c) ==
    \A result \in KeyPeeks :
        ~set_peek_result_inner(Before(c), result, TRUE, TRUE).stopped =>
            KeysSentForAdded(Before(c), set_peek_result_inner(Before(c), result, TRUE, TRUE))

\* The join response replays the last peek as a roster update.
C10_JoinOf(c) ==
    \A request \in calls[c].join_requests :
        KeysSentForAdded(Before(c),
                         on_sfu_client_joined(Before(c),
                                              JoinResponse(request, None, Era1),
                                              TRUE, TRUE, TRUE))

\* C10: when a roster update applied while Joined adds demux ids, the send
\* ratchet is advanced exactly once for that update and the new
\* (ratchetCounter, secret) is sent over signaling to the users that own the
\* added devices, a user who already had another device in the call among
\* them, and to no other user; if a key rotation is pending, the pending
\* secret is also sent to those users with ratchetCounter 0.  A roster
\* update that adds no demux id does not advance the ratchet.
C10_AdvancedKeyToAddedOnly ==
    \A c \in DOMAIN calls : ~calls[c].stopped => C10_PeekOf(c) /\ C10_JoinOf(c)

\* Both devices are in the call and a rotation waits for another one: the
\* roster update that added the last of the devices found a key rotation
\* pending, advanced the ratchet and sent both keys.
C10_Witness ==
    \E c \in DOMAIN calls :
        /\ calls[c].send_secret.step = 2
        /\ calls[c].media_send_key_rotation_state.tag = "Pending"
        /\ calls[c].media_send_key_rotation_state.needs_another_rotation
        /\ demux_id_set(calls[c].remote_devices) = {2, 3}




-----------------------------------------------------------------------------
(* The delayed apply of a rotated media send key *)

\* frame_crypto::Context::reset_send_ratchet: the secret, at ratchet
\* counter 0.
reset_send_ratchet(s, secret) ==
    [s EXCEPT !.send_counter = 0, !.send_secret = [base |-> secret, step |-> 0]]

\* The delayed job, had it never rotated again.
apply_media_send_key_once(s, secret) ==
    [reset_send_ratchet(s, secret) EXCEPT !.media_send_key_rotation_state = RotationApplied]

\* The job rotate_media_send_key_and_send_to_users_not_removed queues on
\* the actor.
apply_media_send_key(s, secret) ==
    IF s.media_send_key_rotation_state.tag = "Pending"
           /\ s.media_send_key_rotation_state.needs_another_rotation
    THEN rotate_media_send_key_and_send_to_users_not_removed(
             [reset_send_ratchet(s, secret)
                EXCEPT !.media_send_key_rotation_state = RotationApplied])
    ELSE [reset_send_ratchet(s, secret)
            EXCEPT !.media_send_key_rotation_state = RotationApplied]

\* The first delayed job of the actor, run on the state it finds.
first_delayed_job(s) ==
    apply_media_send_key([s EXCEPT !.delayed = Tail(@)], Head(s.delayed).secret)

\* The actor runs a delayed job once it is due.
DelayedJob(c) ==
    /\ calls[c].delayed /= <<>>
    /\ now >= Head(calls[c].delayed).due
    /\ Run(c, first_delayed_job(Before(c)))

\* Time passes until the first delayed job of the actor is due.
TimePasses(c) ==
    /\ ~calls[c].stopped
    /\ calls[c].delayed /= <<>>
    /\ now < Head(calls[c].delayed).due
    /\ now' = Head(calls[c].delayed).due
    /\ UNCHANGED <<calls, busy>>

\* The rosters while users come and go: nobody, one user, a second user.
RotationPeeks ==
    { PeekOk(PeekInfo(devices, <<>>, None, Some(Era1), None)) :
        devices \in { <<>>, <<Device2>>, <<Device2, Device3>> } }

\* One Call that connects and joins and stays joined while users come and
\* go, and the actor runs its delayed jobs when they are due.
NextRotation ==
    \E c \in {1} :
        \/ Connect(c)
        \/ Join(c)
        \/ \E request \in calls[c].join_requests :
              SfuJoined(c, request, LocalDemuxId, None, Era1, TRUE, TRUE, TRUE)
        \/ \E result \in RotationPeeks : SetPeekResult(c, result, TRUE, TRUE)
        \/ TimePasses(c)
        \/ DelayedJob(c)

SpecRotation ==
    /\ Init
    /\ [][NextRotation]_vars
    /\ WF_vars(TimePasses(1))
    /\ WF_vars(DelayedJob(1))

-----------------------------------------------------------------------------
(* C11: a removed user is locked out after at most two delayed applies *)

RemoteUsers == {"u2", "u3"}

\* The user was sent the secret, or an earlier step of its ratchet, and so
\* can decrypt the frames sent under it.
Knows(s, user_id, secret) ==
    \E k \in s.media_keys_sent :
        /\ k.to = user_id
        /\ k.secret.base = secret.base
        /\ k.secret.step <= secret.step

\* The user has no device in the roster of the joined Call, and can decrypt
\* what the Call sends.
RemovedAndDecrypts(s, user_id) ==
    /\ s.join_state.tag = "Joined"
    /\ user_id \notin UsersOf(s.remote_devices)
    /\ Knows(s, user_id, s.send_secret)

KnowsPending(s, user_id) ==
    Knows(s, user_id, [base |-> s.media_send_key_rotation_state.secret, step |-> 0])

\* While a removed user can decrypt, a rotation is pending, and its secret
\* was not sent to the user unless another rotation follows it.
C11_RotationOnItsWay(c, user_id) ==
    RemovedAndDecrypts(calls[c], user_id) =>
        /\ calls[c].media_send_key_rotation_state.tag = "Pending"
        /\ calls[c].delayed /= <<>>
        /\ Head(calls[c].delayed).secret = calls[c].media_send_key_rotation_state.secret
        /\ KnowsPending(calls[c], user_id) =>
               calls[c].media_send_key_rotation_state.needs_another_rotation

\* The delayed apply locks the removed user out if the pending secret was
\* not sent to the user; otherwise it leaves a pending secret that was not.
C11_ApplyOf(c, user_id) ==
    (RemovedAndDecrypts(calls[c], user_id) /\ ~calls[c].stopped) =>
        LET after == first_delayed_job(Before(c))
        IN /\ after.join_state = calls[c].join_state
           /\ after.send_secret =
                  [base |-> calls[c].media_send_key_rotation_state.secret, step |-> 0]
           /\ IF KnowsPending(calls[c], user_id)
              THEN /\ Knows(after, user_id, after.send_secret)
                   /\ after.media_send_key_rotation_state.tag = "Pending"
                   /\ ~after.media_send_key_rotation_state.needs_another_rotation
                   /\ ~KnowsPending(after, user_id)
              ELSE ~Knows(after, user_id, after.send_secret)

\* Until a delayed apply, the removed user goes on decrypting.
C11_DecryptsUntilApply(c, user_id) ==
    (RemovedAndDecrypts(calls[c], user_id)
        /\ calls'[c] /= Committed(first_delayed_job(Before(c)))
        /\ user_id \notin UsersOf(calls'[c].remote_devices))
    => RemovedAndDecrypts(calls'[c], user_id)

\* C11: after a user is removed while the local device stays Joined, the
\* user can decrypt the frames sent until a delayed apply happens; the send
\* ratchet is eventually reset to a secret that was never sent to the user,
\* after at most two delayed applies, and from then on the user cannot
\* decrypt (for as long as the user stays out of the roster).
C11_RemovedUserLockedOut ==
    /\ [](\A user_id \in RemoteUsers :
             C11_RotationOnItsWay(1, user_id) /\ C11_ApplyOf(1, user_id))
    /\ [][\A user_id \in RemoteUsers : C11_DecryptsUntilApply(1, user_id)]_vars
    /\ \A user_id \in RemoteUsers :
           RemovedAndDecrypts(calls[1], user_id)
               ~> ~RemovedAndDecrypts(calls[1], user_id)

\* The second of two delayed applies has locked out a user who was sent the
\* first rotated secret.
C11_Witness ==
    /\ calls[1].join_state.tag = "Joined"
    /\ "u2" \notin UsersOf(calls[1].remote_devices)
    /\ calls[1].secrets_generated = 2
    /\ calls[1].send_secret.base = 2
    /\ calls[1].media_send_key_rotation_state.tag = "Applied"
    /\ \E k \in calls[1].media_keys_sent : k.to = "u2" /\ k.secret.base = 1
    /\ ~Knows(calls[1], "u2", calls[1].send_secret)

-----------------------------------------------------------------------------
(* The membership proof, video requests, and the clock *)

\* Seconds the clock may run.
MaxClock == 2

set_membership_proof(s, proof) ==
    IF s.remote_devices_request_state.tag = "WaitingForMembershipProof"
    THEN request_remote_devices_as_soon_as_possible(
             [Emit(s, "sfu_client.set_membership_proof", proof)
                EXCEPT !.membership_proof = Some(proof),
                       !.remote_devices_request_state = ReqNeverRequested])
    ELSE [Emit(s, "sfu_client.set_membership_proof", proof)
            EXCEPT !.membership_proof = Some(proof)]

request_video(s, requests) ==
    IF ~s.on_demand_video_request_sent_since_last_heartbeat
    THEN [send_video_requests_to_sfu([s EXCEPT !.video_requests = Some(requests)])
            EXCEPT !.on_demand_video_request_sent_since_last_heartbeat = TRUE]
    ELSE [s EXCEPT !.video_requests = Some(requests)]

SetMembershipProof(c) == Run(c, set_membership_proof(Before(c), "proof"))

RequestVideo(c, requests) == Run(c, request_video(Before(c), requests))

\* The actor runs the tick it has scheduled; the tick schedules the next.
Tick(c) ==
    /\ calls[c].ticks_scheduled > 0
    /\ Run(c, tick([Before(c) EXCEPT !.ticks_scheduled = @ - 1]))

\* The clock advances by the interval between two ticks.
ClockAdvances ==
    /\ now + TICK_INTERVAL <= MaxClock * 1000
    /\ now' = now + TICK_INTERVAL
    /\ UNCHANGED <<calls, busy>>

\* A Call of either kind.
InitPolling ==
    /\ \E kind \in {"SignalGroup", "CallLinks"} :
           calls = [c \in {1} |-> InitialCall(kind, None)]
    /\ busy = FALSE
    /\ now = 0

\* One Call of either kind that connects and joins while ticks, membership
\* proofs, peek results and media keys arrive in any order.
NextPolling ==
    \E c \in {1} :
        \/ Connect(c)
        \/ Join(c)
        \/ \E request \in calls[c].join_requests :
              SfuJoined(c, request, LocalDemuxId, None, Era1, TRUE, TRUE, TRUE)
        \/ \E result \in LifecyclePeeks \cup {PeekErr} : SetPeekResult(c, result, TRUE, TRUE)
        \/ SetMembershipProof(c)
        \/ \E m \in KeyMessages : MediaKeyReceived(c, m.sender, m.key)
        \/ Tick(c)

SpecPolling == InitPolling /\ [][NextPolling]_vars

\* The video requests of the application: for nobody, for demux id 2.
VideoRequests == {<<>>, <<2>>}

\* One Call that connects, joins and leaves while the clock runs, the
\* ticks run and video is requested.
NextTicks ==
    \E c \in {1} :
        \/ Connect(c)
        \/ Join(c)
        \/ Leave(c)
        \/ \E request \in calls[c].join_requests :
              SfuJoined(c, request, LocalDemuxId, None, Era1, TRUE, TRUE, TRUE)
        \/ \E requests \in VideoRequests : RequestVideo(c, requests)
        \/ Tick(c)
        \/ ClockAdvances

SpecTicks == Init /\ [][NextTicks]_vars




-----------------------------------------------------------------------------
(* C12: no peek before the first membership proof *)

\* How many times the job called sfu_client.peek.
Peeks(after) == Cardinality({i \in DOMAIN after.out : after.out[i].cb = "sfu_client.peek"})

\* The state after each job the Call may run next, set_membership_proof
\* aside.
PollingJobs(c) ==
    {connect(Before(c)), join(Before(c)), tick(Before(c))}
        \cup {set_peek_result_inner(Before(c), result, TRUE, TRUE) :
                 result \in LifecyclePeeks \cup {PeekErr}}
        \cup {on_signaling_message_received(Before(c), m.sender, m.key) : m \in KeyMessages}
        \cup {on_sfu_client_joined(Before(c), JoinResponse(request, None, Era1), TRUE, TRUE, TRUE) :
                 request \in calls[c].join_requests}

NoProofYet(c) == calls[c].kind = "SignalGroup" /\ IsNone(calls[c].membership_proof)

\* While the Call waits for a membership proof no job peeks, and the proof
\* peeks once.
C12_WhileWaiting ==
    calls[1].remote_devices_request_state.tag = "WaitingForMembershipProof" =>
        /\ NoProofYet(1)
        /\ \A after \in PollingJobs(1) : Peeks(after) = 0
        /\ Peeks(set_membership_proof(Before(1), "proof")) = 1

\* A call-link Call never waits for a membership proof.
C12_CallLink ==
    calls[1].kind = "CallLinks" =>
        calls[1].remote_devices_request_state.tag /= "WaitingForMembershipProof"

\* C12: for a managed-group Call no peek is issued before the first
\* set_membership_proof, whatever other jobs run before it, and the first
\* set_membership_proof issues exactly one peek at once; a call-link Call
\* starts in NeverRequested and may peek without a proof.
C12_AsStated ==
    /\ NoProofYet(1) =>
           /\ \A after \in PollingJobs(1) : Peeks(after) = 0
           /\ Peeks(set_membership_proof(Before(1), "proof")) = 1
    /\ C12_CallLink

-----------------------------------------------------------------------------
(* Rosters with the local device, devices of no member, pending devices *)

LocalDevice == PeekDevice(LocalDemuxId, Some(SelfUser))

\* The devices of a peek: nobody; the local device, alone and with a remote
\* one; a remote device, alone and with the device of someone who is not a
\* member of the group.
RosterDevices ==
    { <<>>, <<LocalDevice>>, <<LocalDevice, Device2>>, <<Device2>>,
      <<Device2, PeekDevice(3, None)>> }

\* The pending devices of a peek: none, one, two in either order.
PendingDevices ==
    { <<>>, <<Device2>>, <<Device2, Device3>>, <<Device3, Device2>> }

\* Every roster without pending devices, every list of pending devices
\* with one roster, and that roster in another era.
RosterPeeks ==
    { PeekInfo(devices, <<>>, None, None, None) : devices \in RosterDevices }
    \cup
    { PeekInfo(<<Device2>>, pending_devices, None, None, None) :
          pending_devices \in PendingDevices }
    \cup
    { PeekInfo(<<Device2>>, <<>>, None, Some(Era1), None) }

\* One Call that connects, joins and leaves, is removed by the SFU, while
\* peek results arrive.
NextRoster ==
    \E c \in {1} :
        \/ Connect(c)
        \/ Join(c)
        \/ Leave(c)
        \/ \E request \in calls[c].join_requests :
              SfuJoined(c, request, LocalDemuxId, None, Era1, TRUE, TRUE, TRUE)
        \/ \E peek_info \in RosterPeeks : SetPeekResult(c, PeekOk(peek_info), TRUE, TRUE)
        \/ RemovedReceived(c)

SpecRoster == Init /\ [][NextRoster]_vars

-----------------------------------------------------------------------------
(* C13: the joined members reported after a peek result *)

\* The devices of a peek other than the local device of a Joined Call.
WithoutLocalDevice(s, devices) ==
    SelectSeq(devices,
              LAMBDA d : ~(s.join_state.tag = "Joined"
                           /\ d.demux_id = s.join_state.demux_id))

\* The users that have a device in the list.
UsersListed(devices) ==
    {user_id \in {SelfUser} \cup RemoteUsers :
        \E i \in 1..Len(devices) : devices[i].user_id = Some(user_id)}

-----------------------------------------------------------------------------
(* C14: when handle_peek_changed fires *)

PeekChangedCount(after) == Cardinality(Emitted(after.out, "handle_peek_changed"))

\* The pending devices as a bag of users, whatever their order.
PendingUserCounts(peek_info) ==
    [u \in UserIdsOf(peek_info.pending_devices) |->
        Cardinality({i \in 1..Len(peek_info.pending_devices) :
                        peek_info.pending_devices[i].user_id = Some(u)})]

\* The two peeks have the same devices, the same era and the same creator.
SameButPending(old, new) ==
    /\ old.devices = new.devices
    /\ old.era_id = new.era_id

\* handle_peek_changed is due for a peek after the previous one.
PeekDiffers(previous, peek_info) ==
    \/ IsNone(previous)
    \/ UserIdsOf(Unwrap(previous).devices) /= UserIdsOf(peek_info.devices)
    \/ Unwrap(previous).era_id /= peek_info.era_id
    \/ PendingUsersSignature(Unwrap(previous)) /= PendingUsersSignature(peek_info)

\* C14: set_peek_result fires handle_peek_changed, once, if and only if the
\* peek is the first of the Call, or its joined user ids, its era id or its
\* pending-users signature differ from those of the previous peek; a peek
\* that only reorders the same pending devices does not fire it, one that
\* adds or removes a pending user does.
C14_PeekChanged ==
    \A c \in DOMAIN calls : \A peek_info \in RosterPeeks :
        LET before == Before(c)
            previous == before.last_peek_info
            after == set_peek_result_inner(before, PeekOk(peek_info), TRUE, TRUE)
        IN /\ PeekChangedCount(after) = IF PeekDiffers(previous, peek_info) THEN 1 ELSE 0
           /\ (IsSome(previous) /\ SameButPending(Unwrap(previous), peek_info)) =>
                 /\ PendingUserCounts(Unwrap(previous)) = PendingUserCounts(peek_info)
                       => PeekChangedCount(after) = 0
                 /\ UserIdsOf(Unwrap(previous).pending_devices)
                          /= UserIdsOf(peek_info.pending_devices)
                       => PeekChangedCount(after) = 1

\* A Joined Call whose last peek has two pending users: the peek with the
\* two in the other order does not fire, the peek without one of them does.
C14_Witness ==
    \E c \in DOMAIN calls :
        LET previous == calls[c].last_peek_info
            reordered == PeekInfo(<<Device2>>, <<Device3, Device2>>, None, None, None)
            without_u3 == PeekInfo(<<Device2>>, <<Device2>>, None, None, None)
        IN /\ previous = Some(PeekInfo(<<Device2>>, <<Device2, Device3>>, None, None, None))
           /\ calls[c].join_state.tag = "Joined"
           /\ PeekChangedCount(
                  set_peek_result_inner(Before(c), PeekOk(reordered), TRUE, TRUE)) = 0
           /\ PeekChangedCount(
                  set_peek_result_inner(Before(c), PeekOk(without_u3), TRUE, TRUE)) = 1

-----------------------------------------------------------------------------
(* Send rates by the size of the call and screen sharing *)

set_sharing_screen(s, sharing_screen, rates_ok) ==
    set_send_rates_inner(
        send_heartbeat([s EXCEPT !.sharing_screen = Some(sharing_screen)]),
        compute_send_rates(Cardinality(s.joined_members), sharing_screen), rates_ok)

\* The sequence numbers of the heartbeats that set_sharing_screen sends stay
\* within the bound.
MaxSeqnum == 3

SetSharingScreen(c, sharing_screen) ==
    /\ calls[c].rtp_data_through_sfu_next_seqnum.hi = 0
    /\ calls[c].rtp_data_through_sfu_next_seqnum.lo <= MaxSeqnum
    /\ Run(c, set_sharing_screen(Before(c), sharing_screen, TRUE))

RateUsers == <<"u2", "u3", "u4", "u5", "u6", "u7", "u8", "u9">>

\* The devices 2..n+1, each of its own user.
DevicesOfUsers(n) == [i \in 1..n |-> PeekDevice(i + 1, Some(RateUsers[i]))]

\* Rosters of 0, 1, 7 and 8 remote devices, the small ones also with the
\* local device.
RatePeeks ==
    { PeekInfo(devices, <<>>, None, None, None) :
          devices \in { <<>>, <<LocalDevice>>, <<LocalDevice, Device2>>,
                        DevicesOfUsers(SMALL_CALL_MAX_DEVICES),
                        DevicesOfUsers(SMALL_CALL_MAX_DEVICES + 1) } }

NextRates ==
    \E c \in {1} :
        \/ Connect(c)
        \/ Join(c)
        \/ \E request \in calls[c].join_requests :
              SfuJoined(c, request, LocalDemuxId, None, Era1, TRUE, TRUE, TRUE)
        \/ \E peek_info \in RatePeeks : SetPeekResult(c, PeekOk(peek_info), TRUE, TRUE)
        \/ \E sharing_screen \in BOOLEAN : SetSharingScreen(c, sharing_screen)

SpecRates == Init /\ [][NextRates]_vars

-----------------------------------------------------------------------------
(* C15: the send rates in force *)

SharingScreen(s) == IsSome(s.sharing_screen) /\ Unwrap(s.sharing_screen)

\* The send rates of the Call are the ones computed from its remote devices
\* and its screen sharing.
RatesAsComputed(after) ==
    (after.join_state.tag = "Joined" /\ IsNone(after.send_rates_override))
        => after.send_rates_in_force
               = Some(compute_send_rates(Len(after.remote_devices), SharingScreen(after)))

\* What holds: a roster update that changes the number of remote devices
\* puts the rates of that number in force, and set_sharing_screen puts in
\* force the rates of the number of joined members, the users of the last
\* peek.
C15_WhatIsComputed ==
    \A c \in DOMAIN calls :
        /\ \A peek_info \in RatePeeks :
              LET after == set_peek_result_inner(Before(c), PeekOk(peek_info), TRUE, TRUE)
              IN Len(after.remote_devices) /= Len(Before(c).remote_devices)
                    => RatesAsComputed(after)
        /\ \A sharing_screen \in BOOLEAN :
              set_sharing_screen(Before(c), sharing_screen, TRUE).send_rates_in_force
                  = Some(compute_send_rates(Cardinality(calls[c].joined_members),
                                            sharing_screen))

\* C15: while Joined with no override, after every roster update and every
\* set_sharing_screen the send rates in force are those computed from the
\* number of remote devices and the screen sharing: at most 1 kbps with no
\* remote device; 2 Mbps at least, 2 Mbps to start and 5 Mbps at most when
\* sharing with a remote device; at most 1000 kbps for 1 to 7 remote devices
\* and 671 kbps for 8 or more when not sharing.
C15_AsStated ==
    \A c \in DOMAIN calls :
        /\ \A peek_info \in RatePeeks :
              RatesAsComputed(
                  set_peek_result_inner(Before(c), PeekOk(peek_info), TRUE, TRUE))
        /\ \A sharing_screen \in BOOLEAN :
              RatesAsComputed(set_sharing_screen(Before(c), sharing_screen, TRUE))

-----------------------------------------------------------------------------
(* C16: the end reason of a Removed message *)

\* RTP, and so a Removed message, comes from a peer connection that was
\* started: handle_rtp_received is its observer's.  A stopped actor runs no
\* job.
RemovedCanArrive(s) == s.dhe_state.tag = "Negotiated" /\ ~s.stopped

\* The peek lists the local device of a Call that applies roster updates.
ListsLocalDevice(s, peek_info) ==
    /\ s.join_state.tag = "Joined"
    /\ s.dhe_state.tag = "Negotiated"
    /\ \E i \in 1..Len(peek_info.devices) :
          peek_info.devices[i].demux_id = s.join_state.demux_id

C16_EndReason(c) ==
    LET before == Before(c)
        after == handle_removed_received(before)
    IN RemovedCanArrive(before) =>
          /\ Cardinality(Emitted(after.out, "handle_ended")) = 1
          /\ after.ended = Append(before.ended,
                                  IF before.has_ever_been_participating_client
                                  THEN "RemovedFromCall"
                                  ELSE "DeniedRequestToJoinCall")

C16_RosterUpdate(c) ==
    \A peek_info \in RosterPeeks :
        LET before == Before(c)
            after == set_peek_result_inner(before, PeekOk(peek_info), TRUE, TRUE)
        IN after.has_ever_been_participating_client
               = (before.has_ever_been_participating_client
                     \/ ListsLocalDevice(before, peek_info))

C16_SinceJoin(c) ==
    /\ calls[c].join_state.tag /= "Joined" => ~calls[c].has_ever_been_participating_client
    /\ leave_inner(Before(c)).has_ever_been_participating_client = FALSE

\* The flag rises only with a roster that lists the local device of the
\* Joined Call, and falls only as the Call stops being joined.
C16_FlagChanges(c) ==
    LET flag == calls[c].has_ever_been_participating_client
        flag_after == calls'[c].has_ever_been_participating_client
    IN /\ (~flag /\ flag_after) =>
              /\ IsSome(calls'[c].last_peek_info)
              /\ ListsLocalDevice(calls'[c], Unwrap(calls'[c].last_peek_info))
       /\ (flag /\ ~flag_after) => calls'[c].join_state.tag = "NotJoined"

\* C16: a Removed message from the SFU ends the call with RemovedFromCall if
\* the local demux id has appeared among the devices of a roster update
\* processed since the current join, with DeniedRequestToJoinCall otherwise;
\* a leave resets this, so that a later join starts as never having
\* participated.
C16_Removed ==
    /\ [](\A c \in DOMAIN calls :
              C16_EndReason(c) /\ C16_RosterUpdate(c) /\ C16_SinceJoin(c))
    /\ [][\A c \in DOMAIN calls : C16_FlagChanges(c)]_vars

\* A Call ended by Removed after its second join, in which it was listed.
C16_Witness ==
    \E c \in DOMAIN calls :
        /\ calls[c].ended = <<"RemovedFromCall">>
        /\ calls[c].joins_issued = 2

-----------------------------------------------------------------------------
(* C17: a ring asked for before the join completes *)

\* The job of the join response that names the creator, for every outcome of
\* the peer connection.
JoinResponsesOf(c, creator) ==
    { on_sfu_client_joined(Before(c), JoinResponse(request, creator, era_id),
                           start_ok, sdp_ok, rates_ok) :
          request \in calls[c].join_requests, era_id \in Eras,
          start_ok \in BOOLEAN, sdp_ok \in BOOLEAN, rates_ok \in BOOLEAN }

\* A ring wanted when the join completes is sent once if the local user
\* created the call, and dropped if another user did; ring(None) after the
\* join of a call of another user sends nothing.
C17_AtJoin(c) ==
    calls[c].join_state.tag = "Joining" /\ calls[c].outgoing_ring_state.tag = "WantsToRing" =>
        /\ \A after \in JoinResponsesOf(c, Some(SelfUser)) :
              after.join_state.tag = "Joined" =>
                  /\ Cardinality(GroupMessages(after.out)) = 1
                  /\ \E era_id \in Eras : SentOnce(after, "Ring", from_era_id(era_id))
                  /\ after.outgoing_ring_state.tag /= "WantsToRing"
        /\ \A after \in JoinResponsesOf(c, Some("u2")) :
              /\ GroupMessages(after.out) = {}
              /\ after.join_state.tag = "Joined" =>
                    /\ after.outgoing_ring_state = NotPermittedToRing
                    /\ GroupMessages(ring_inner(Committed(after), None).out) = {}

C17_AfterJoinOfAnother(c) ==
    calls[c].join_state.tag = "Joining" =>
        \A after \in JoinResponsesOf(c, Some("u2")) :
            after.join_state.tag = "Joined" =>
                GroupMessages(ring_inner(Committed(after), None).out) = {}

\* What holds: ring(None) sends nothing at once unless the Call is permitted
\* to ring, which it stays after the leave of a call it created.
C17_WhatHolds ==
    \A c \in DOMAIN calls :
        /\ calls[c].outgoing_ring_state.tag /= "PermittedToRing"
              => GroupMessages(ring_inner(Before(c), None).out) = {}
        /\ C17_AtJoin(c)
        /\ C17_AfterJoinOfAnother(c)

\* C17: ring(None) asked for before the join completes emits nothing when it
\* is asked for; when the join completes the ring is emitted exactly once if
\* the creator of the call is the local user and never if it is another
\* user; ring(None) asked for after joining a call created by another user
\* emits nothing.
C17_AsStated ==
    \A c \in DOMAIN calls :
        /\ calls[c].join_state.tag /= "Joined"
              => GroupMessages(ring_inner(Before(c), None).out) = {}
        /\ C17_AtJoin(c)
        /\ C17_AfterJoinOfAnother(c)

-----------------------------------------------------------------------------
(* C18: the messages of a leave *)

\* The RTP data packets of a job with a plaintext, through the SFU to the
\* other devices or to the SFU itself on SSRC 1.
BroadcastsOf(out, message) ==
    {i \in Emitted(out, "peer_connection.send_rtp") :
        /\ out[i].arg.ssrc /= RTP_DATA_TO_SFU_SSRC
        /\ out[i].arg.payload.plaintext = message}

ToSfuOf(out, message) ==
    {i \in Emitted(out, "peer_connection.send_rtp") :
        /\ out[i].arg.ssrc = RTP_DATA_TO_SFU_SSRC
        /\ out[i].arg.payload = message}

LeavingTo(out, user_id) ==
    {i \in Emitted(out, "send_signaling_message") :
        out[i].arg.to = user_id /\ out[i].arg.message.type = "Leaving"}

\* The events of the job not after its handle_join_state_changed.
BeforeNotJoined(out) ==
    {i \in 1..Len(out) :
        \A j \in Emitted(out, "handle_join_state_changed") : i <= j}

\* The leave of a Joined Call sends, before NotJoined, the given number of
\* Leaving broadcasts, one Leaving to each joined member and two
\* LeaveMessage to the SFU; the leave of a Joining Call sends none of them;
\* both leave NotJoined without ring id.
LeaveSends(c, broadcasts) ==
    LET before == Before(c)
        after == leave_inner(before)
        rtp == Emitted(after.out, "peer_connection.send_rtp")
        signaling == Emitted(after.out, "send_signaling_message")
    IN /\ before.join_state.tag = "Joined" =>
             /\ Cardinality(BroadcastsOf(after.out, "Leaving")) = broadcasts
             /\ Cardinality(ToSfuOf(after.out, "Leave")) = 2
             /\ Cardinality(rtp) = broadcasts + 2
             /\ \A user_id \in before.joined_members :
                   Cardinality(LeavingTo(after.out, user_id)) = 1
             /\ Cardinality(signaling) = Cardinality(before.joined_members)
             /\ (rtp \cup signaling) \subseteq BeforeNotJoined(after.out)
       /\ before.join_state.tag = "Joining" => rtp = {} /\ signaling = {}
       /\ before.join_state.tag \in {"Joining", "Joined"} =>
             /\ after.join_state = NotJoined(None)
             /\ Emitted(after.out, "handle_join_state_changed") /= {}

-----------------------------------------------------------------------------
(* C19: the heartbeat of a joined Call *)

\* The tick of a Joined Call whose heartbeat is due broadcasts one Heartbeat,
\* and sends the video requests to the SFU if any were made.
HeartbeatWhenDue(c) ==
    Due(calls[c].next_heartbeat_time) =>
        LET after == tick(Before(c))
        IN /\ Cardinality(BroadcastsOf(after.out, "Heartbeat")) = 1
           /\ Cardinality(ToSfuOf(after.out, "VideoRequest"))
                  = IF IsSome(calls[c].video_requests) THEN 1 ELSE 0
           /\ after.next_heartbeat_time = Some(now + HEARTBEAT_INTERVAL)

\* What holds: a heartbeat is scheduled, within 1 s, from connect to the
\* first leave, and the tick that finds it due sends it if the Call is
\* Joined.
C19_UntilLeave ==
    \A c \in DOMAIN calls :
        /\ (calls[c].connection_state /= "NotConnected" /\ calls[c].joins_issued = 0) =>
              IsSome(calls[c].next_heartbeat_time)
        /\ IsSome(calls[c].next_heartbeat_time) =>
              /\ Unwrap(calls[c].next_heartbeat_time) <= now + HEARTBEAT_INTERVAL
              /\ calls[c].ticks_scheduled > 0
        /\ calls[c].join_state.tag = "Joined" => HeartbeatWhenDue(c)

\* C19: whenever the Call is Joined a Heartbeat is broadcast through the SFU
\* at every 1 s heartbeat boundary, with a VideoRequestMessage if any
\* request_video has occurred, in every joined period of the Call and not
\* only the first: a Joined Call has a heartbeat scheduled within 1 s, a tick
\* to find it due, and the tick sends it.
C19_AsStated ==
    \A c \in DOMAIN calls :
        calls[c].join_state.tag = "Joined" /\ ~calls[c].stopped =>
            /\ IsSome(calls[c].next_heartbeat_time)
            /\ Unwrap(calls[c].next_heartbeat_time) <= now + HEARTBEAT_INTERVAL
            /\ calls[c].ticks_scheduled > 0
            /\ HeartbeatWhenDue(c)

-----------------------------------------------------------------------------
(* C20: at most one on-demand video request between heartbeat ticks *)

VideoRequestsSent(after) == Cardinality(ToSfuOf(after.out, "VideoRequest"))

\* What holds: request_video keeps the requests and sends them at once if
\* and only if the Call is Joined and the flag is down, which it raises;
\* while a VideoRequestMessage was sent since the last heartbeat tick the
\* flag is up, and the heartbeat tick of a Joined Call sends the latest
\* requests.
C20_ByTheFlag ==
    \A c \in DOMAIN calls : \A requests \in VideoRequests :
        LET before == Before(c)
            after == request_video(before, requests)
        IN /\ after.video_requests = Some(requests)
           /\ after.on_demand_video_request_sent_since_last_heartbeat
           /\ VideoRequestsSent(after)
                  = IF /\ before.join_state.tag = "Joined"
                       /\ ~before.on_demand_video_request_sent_since_last_heartbeat
                    THEN 1 ELSE 0
           /\ before.video_request_sent
                  => before.on_demand_video_request_sent_since_last_heartbeat
           /\ before.join_state.tag = "Joined" => HeartbeatWhenDue(c)

\* C20: between two consecutive heartbeat ticks at most one on-demand
\* VideoRequestMessage is sent: request_video (of a Joined Call) sends a
\* message at once if and only if no video request was sent since the last
\* heartbeat tick; otherwise the latest requests wait and are sent at the
\* next heartbeat tick.
C20_AsStated ==
    \A c \in DOMAIN calls : \A requests \in VideoRequests :
        LET before == Before(c)
            after == request_video(before, requests)
        IN before.join_state.tag = "Joined" =>
              /\ VideoRequestsSent(after) = IF before.video_request_sent THEN 0 ELSE 1
              /\ VideoRequestsSent(after) = 0 =>
                    /\ after.video_requests = Some(requests)
                    /\ IsSome(after.next_heartbeat_time)

-----------------------------------------------------------------------------
(* The speakers among the remote devices *)

\* RTP data reaches the client from its peer connection, once that was
\* started and while the actor runs.
RtpCanArrive(c) == calls[c].dhe_state.tag = "Negotiated" /\ ~calls[c].stopped

SpeakerReceived(c, timestamp, demux_id) ==
    /\ RtpCanArrive(c)
    /\ Run(c, handle_speaker_received(Before(c), timestamp, demux_id))

\* The clock advances by a second.
SecondPasses ==
    /\ now + 1000 <= MaxClock * 1000
    /\ now' = now + 1000
    /\ UNCHANGED <<calls, busy>>

\* The rosters while the SFU says who speaks: two devices in either order,
\* and the second one gone.
SpeakerPeeks ==
    { PeekOk(PeekInfo(devices, <<>>, None, Some(Era1), None)) :
        devices \in { <<Device2, Device3>>, <<Device3, Device2>>, <<Device2>> } }

Timestamps == 0..MaxTimestamp

\* The demux ids a message names: the remote devices and the local one.
DemuxIds == {LocalDemuxId, 2, 3}

\* One Call that connects and joins while the roster changes, time passes
\* and the SFU says who speaks.
NextSpeakers ==
    \E c \in {1} :
        \/ Connect(c)
        \/ Join(c)
        \/ \E request \in calls[c].join_requests :
              SfuJoined(c, request, LocalDemuxId, None, Era1, TRUE, TRUE, TRUE)
        \/ \E result \in SpeakerPeeks : SetPeekResult(c, result, TRUE, TRUE)
        \/ \E timestamp \in Timestamps, demux_id \in DemuxIds :
              SpeakerReceived(c, timestamp, demux_id)
        \/ SecondPasses

SpecSpeakers == Init /\ [][NextSpeakers]_vars


\* The keys the devices are sorted by: speaker_time descending (never
\* spoken, 0, last), then added_time ascending, then demux id ascending.
SortsBefore(a, b) ==
    \/ SpeakerKey(a) > SpeakerKey(b)
    \/ SpeakerKey(a) = SpeakerKey(b) /\ a.added_time < b.added_time
    \/ SpeakerKey(a) = SpeakerKey(b) /\ a.added_time = b.added_time /\ a.demux_id < b.demux_id

\* The demux id the sort puts first.
SortedFirst(remote_devices) ==
    remote_devices[CHOOSE i \in 1..Len(remote_devices) :
                       \A j \in 1..Len(remote_devices) :
                           j /= i => ~SortsBefore(remote_devices[j], remote_devices[i])].demux_id

SpeakerChanges(out) ==
    {i \in Emitted(out, "handle_remote_devices_changed") :
        out[i].arg.reason = "SpeakerTimeChanged"}

\* What a Speaker message does, given which device counts as the latest
\* speaker.
SpeakerMessage(c, timestamp, demux_id, latest) ==
    LET before == Before(c)
        after == handle_speaker_received(before, timestamp, demux_id)
        known == find_by_demux_id(before.remote_devices, demux_id) /= {}
    IN IF IsSome(before.speaker_rtp_timestamp)
             /\ timestamp <= Unwrap(before.speaker_rtp_timestamp)
       THEN after = before
       ELSE IF known /\ latest /= Some(demux_id)
       THEN /\ after.remote_devices =
                  [before.remote_devices
                     EXCEPT ![FirstOfDemuxId(before.remote_devices, demux_id)].speaker_time
                                = Some(now)]
            /\ Cardinality(SpeakerChanges(after.out)) = 1
            /\ Len(after.out) = 1
       ELSE /\ after.remote_devices = before.remote_devices
            /\ after.out = <<>>

\* What holds: a Speaker message is ignored if its timestamp is not greater
\* than the last one; otherwise a known device that does not hold the
\* greatest speaker_time gets the clock's reading as its speaker_time with
\* one SpeakerTimeChanged, and nothing changes for an unknown device or the
\* device of the greatest speaker_time.  The sort puts the last new speaker
\* first if its speaker_time is above that of every other device.
C21_ByTheClock ==
    \A c \in DOMAIN calls :
        /\ \A timestamp \in Timestamps, demux_id \in DemuxIds :
              SpeakerMessage(c, timestamp, demux_id,
                             latest_speaker_demux_id(calls[c].remote_devices))
        /\ \A i \in 1..Len(calls[c].remote_devices) :
              (\A j \in 1..Len(calls[c].remote_devices) :
                   j /= i => SpeakerKey(calls[c].remote_devices[j])
                                 < SpeakerKey(calls[c].remote_devices[i]))
                 => SortedFirst(calls[c].remote_devices) = calls[c].remote_devices[i].demux_id

\* The last new speaker, while the device that spoke is among the remote
\* devices.
LatestSpeaker(c) ==
    IF IsSome(calls[c].last_new_speaker)
         /\ \E i \in find_by_demux_id(calls[c].remote_devices,
                                        Unwrap(calls[c].last_new_speaker)) :
                IsSome(calls[c].remote_devices[i].speaker_time)
    THEN calls[c].last_new_speaker
    ELSE None

\* C21: a Speaker message with a timestamp not greater than the last one is
\* ignored; otherwise a known remote device that is not already the latest
\* speaker gets speaker_time = now with exactly one SpeakerTimeChanged, and
\* for an unknown device or the latest speaker no device changes and
\* nothing is emitted.  After any sequence of speaker events the sort by
\* speaker_time descending, added_time ascending, demux id ascending puts
\* the most recently accepted new speaker first.
C21_AsStated ==
    \A c \in DOMAIN calls :
        /\ \A timestamp \in Timestamps, demux_id \in DemuxIds :
              IsSome(LatestSpeaker(c)) =>
                  SpeakerMessage(c, timestamp, demux_id, LatestSpeaker(c))
        /\ IsSome(LatestSpeaker(c))
              => SortedFirst(calls[c].remote_devices) = Unwrap(LatestSpeaker(c))

-----------------------------------------------------------------------------
(* The videos the SFU forwards *)

ForwardingVideoReceived(c, demux_ids_with_video, allocated_heights) ==
    /\ RtpCanArrive(c)
    /\ Run(c, handle_forwarding_video_received(Before(c), demux_ids_with_video,
                                               allocated_heights))

IncomingVideoFrame(c, track_id, height) ==
    /\ RtpCanArrive(c)
    /\ Run(c, handle_incoming_video_frame(Before(c), track_id, height))

\* The rosters while videos are forwarded: one device, a second one, the
\* first one gone.
ForwardingPeeks ==
    { PeekOk(PeekInfo(devices, <<>>, None, Some(Era1), None)) :
        devices \in { <<Device2>>, <<Device2, Device3>>, <<Device3>> } }

\* CurrentDevices messages: no video, the video of one device at two
\* heights, the videos of two devices, and a demux id without its height.
CurrentDevices ==
    { [demux_ids_with_video |-> <<>>, allocated_heights |-> <<>>],
      [demux_ids_with_video |-> <<2>>, allocated_heights |-> <<240>>],
      [demux_ids_with_video |-> <<2>>, allocated_heights |-> <<120>>],
      [demux_ids_with_video |-> <<2, 3>>, allocated_heights |-> <<240, 120>>],
      [demux_ids_with_video |-> <<2, 3>>, allocated_heights |-> <<240>>] }

FrameHeights == {120, 240}

\* One Call that connects and joins while the roster changes, the SFU says
\* which videos it forwards and video frames are decoded.
NextForwarding ==
    \E c \in {1} :
        \/ Connect(c)
        \/ Join(c)
        \/ \E request \in calls[c].join_requests :
              SfuJoined(c, request, LocalDemuxId, None, Era1, TRUE, TRUE, TRUE)
        \/ \E result \in ForwardingPeeks : SetPeekResult(c, result, TRUE, TRUE)
        \/ \E m \in CurrentDevices :
              ForwardingVideoReceived(c, m.demux_ids_with_video, m.allocated_heights)
        \/ \E track_id \in {2, 3}, height \in FrameHeights :
              IncomingVideoFrame(c, track_id, height)

SpecForwarding == Init /\ [][NextForwarding]_vars

ForwardedVideosChanges(out) ==
    {i \in Emitted(out, "handle_remote_devices_changed") :
        out[i].arg.reason = "ForwardedVideosChanged"}

\* The remote devices are as the forwarded videos say.
DevicesAsForwarded(remote_devices, forwarding_videos) ==
    \A i \in 1..Len(remote_devices) :
        LET device == remote_devices[i]
        IN IF device.demux_id \in DOMAIN forwarding_videos
           THEN /\ device.forwarding_video = Some(TRUE)
                /\ device.server_allocated_height = forwarding_videos[device.demux_id]
           ELSE /\ device.forwarding_video = Some(FALSE)
                /\ device.server_allocated_height = 0
                /\ device.client_decoded_height = None

\* What holds: a CurrentDevices message whose demux ids and heights are
\* not the ones of the last message that changed them sets every remote
\* device by it and emits ForwardedVideosChanged once; a message that
\* repeats them changes nothing, whatever the remote devices are by then.
C22_WhenChanged ==
    \A c \in DOMAIN calls : \A m \in CurrentDevices :
        LET forwarding_videos == ForwardingVideos(m.demux_ids_with_video, m.allocated_heights)
            after == handle_forwarding_video_received(
                         Before(c), m.demux_ids_with_video, m.allocated_heights)
        IN IF calls[c].forwarding_videos /= forwarding_videos
           THEN /\ DevicesAsForwarded(after.remote_devices, forwarding_videos)
                /\ Cardinality(ForwardedVideosChanges(after.out)) = 1
                /\ Len(after.out) = 1
           ELSE after = Before(c)

\* C22: after a CurrentDevices message every remote device known at that
\* moment has forwarding_video equal to whether its demux id is among the
\* demux ids with video, server_allocated_height equal to its allocated
\* height (0 when not forwarded) and no client_decoded_height when not
\* forwarded; ForwardedVideosChanged is emitted exactly once if the
\* forwarded videos changed and not at all otherwise.
C22_AsStated ==
    \A c \in DOMAIN calls : \A m \in CurrentDevices :
        LET forwarding_videos == ForwardingVideos(m.demux_ids_with_video, m.allocated_heights)
            after == handle_forwarding_video_received(
                         Before(c), m.demux_ids_with_video, m.allocated_heights)
        IN /\ DevicesAsForwarded(after.remote_devices, forwarding_videos)
           /\ Cardinality(ForwardedVideosChanges(after.out))
                  = IF calls[c].forwarding_videos /= forwarding_videos THEN 1 ELSE 0

-----------------------------------------------------------------------------
(* The heartbeats of the remote devices *)

\* A heartbeat over RTP: the job of handle_heartbeat_received, then the job
\* that asks for the roster if the sender is unknown.
HeartbeatReceived(c, demux_id, timestamp, heartbeat) ==
    /\ RtpCanArrive(c)
    /\ Run(c, request_devices_if_unknown(
                  handle_heartbeat_received(Before(c), demux_id, timestamp, heartbeat),
                  demux_id))

\* Heartbeat messages (the protobuf): nothing set, the video muted, the
\* video not muted, the audio muted with the video.
Heartbeats ==
    { [audio_muted |-> None, video_muted |-> None, presenting |-> None,
       sharing_screen |-> None],
      [audio_muted |-> None, video_muted |-> Some(TRUE), presenting |-> None,
       sharing_screen |-> None],
      [audio_muted |-> None, video_muted |-> Some(FALSE), presenting |-> None,
       sharing_screen |-> None],
      [audio_muted |-> Some(TRUE), video_muted |-> Some(TRUE), presenting |-> None,
       sharing_screen |-> None] }

\* The rosters while heartbeats arrive: one device, a second one, the
\* first one gone.
HeartbeatPeeks ==
    { PeekOk(PeekInfo(devices, <<>>, None, Some(Era1), None)) :
        devices \in { <<Device2>>, <<Device2, Device3>>, <<Device3>> } }

\* One Call that connects and joins while the roster changes, heartbeats
\* of known and unknown devices arrive in any order and video frames are
\* decoded.
NextHeartbeats ==
    \E c \in {1} :
        \/ Connect(c)
        \/ Join(c)
        \/ \E request \in calls[c].join_requests :
              SfuJoined(c, request, LocalDemuxId, None, Era1, TRUE, TRUE, TRUE)
        \/ \E result \in HeartbeatPeeks : SetPeekResult(c, result, TRUE, TRUE)
        \/ \E demux_id \in {2, 3}, timestamp \in Timestamps, heartbeat \in Heartbeats :
              HeartbeatReceived(c, demux_id, timestamp, heartbeat)
        \/ \E track_id \in {2}, height \in FrameHeights :
              IncomingVideoFrame(c, track_id, height)

SpecHeartbeats == Init /\ [][NextHeartbeats]_vars

HeartbeatChanges(out, demux_id) ==
    EmittedWith(out, "handle_remote_devices_changed",
                [reason |-> "HeartbeatStateChanged", demux_id |-> demux_id])

\* The heartbeat timestamp stored for a device, -1 if none is.
StoredTimestamp(device) ==
    IF IsSome(device.heartbeat_rtp_timestamp) THEN Unwrap(device.heartbeat_rtp_timestamp) ELSE -1

\* What the heartbeat of a known device does to the device at place i.
HeartbeatOfDevice(before, after, i, demux_id, timestamp, heartbeat) ==
    LET device == before.remote_devices[i]
        heartbeat_state == HeartbeatState(heartbeat.audio_muted, heartbeat.video_muted,
                                          heartbeat.presenting, heartbeat.sharing_screen)
    IN IF timestamp <= StoredTimestamp(device) \/ timestamp = 0
       THEN after = before
       ELSE /\ after.remote_devices[i].heartbeat_rtp_timestamp = Some(timestamp)
            /\ after.remote_devices[i].heartbeat_state = heartbeat_state
            /\ \A j \in 1..Len(before.remote_devices) :
                   j /= i => after.remote_devices[j] = before.remote_devices[j]
            /\ IF device.heartbeat_state /= heartbeat_state
               THEN /\ Cardinality(HeartbeatChanges(after.out, demux_id)) = 1
                    /\ Len(after.out) = 1
                    /\ heartbeat_state.video_muted = Some(TRUE)
                           => after.remote_devices[i].client_decoded_height = None
                    /\ heartbeat_state.video_muted /= Some(TRUE)
                           => after.remote_devices[i].client_decoded_height
                                  = device.client_decoded_height
               ELSE /\ after.out = <<>>
                    /\ after.remote_devices[i] =
                           [device EXCEPT !.heartbeat_rtp_timestamp = Some(timestamp)]

C23_Heartbeat(c) ==
    \A demux_id \in {2, 3}, timestamp \in Timestamps, heartbeat \in Heartbeats :
        LET after == handle_heartbeat_received(Before(c), demux_id, timestamp, heartbeat)
        IN IF find_by_demux_id(calls[c].remote_devices, demux_id) = {}
           THEN after = Before(c)
           ELSE HeartbeatOfDevice(Before(c), after,
                                  FirstOfDemuxId(calls[c].remote_devices, demux_id),
                                  demux_id, timestamp, heartbeat)

\* No step lowers the timestamp stored for a device that stays.
C23_NeverDecreases(c) ==
    \A i \in 1..Len(calls[c].remote_devices), j \in 1..Len(calls'[c].remote_devices) :
        (/\ calls[c].remote_devices[i].demux_id = calls'[c].remote_devices[j].demux_id
         /\ calls[c].remote_devices[i].user_id = calls'[c].remote_devices[j].user_id)
            => StoredTimestamp(calls'[c].remote_devices[j])
                   >= StoredTimestamp(calls[c].remote_devices[i])

\* C23: the heartbeats of a remote device are applied in strictly increasing
\* order of their RTP timestamps.  A heartbeat whose timestamp is not above
\* the one stored for the device changes nothing; an accepted one records
\* its timestamp and, only if its payload differs from the stored heartbeat
\* state, stores the payload and emits one HeartbeatStateChanged, clearing
\* client_decoded_height if it says the video is muted.  The stored
\* timestamp of a device never decreases.
C23_HeartbeatsInOrder ==
    /\ [](\A c \in DOMAIN calls : C23_Heartbeat(c))
    /\ [][\A c \in DOMAIN calls : C23_NeverDecreases(c)]_vars

\* A device whose decoded height was cleared by the heartbeat that muted
\* its video, the last timestamp of the model stored.
C23_Witness ==
    \E i \in 1..Len(calls[1].remote_devices) :
        /\ calls[1].remote_devices[i].demux_id = 2
        /\ calls[1].remote_devices[i].heartbeat_rtp_timestamp = Some(MaxTimestamp)
        /\ calls[1].remote_devices[i].heartbeat_state.video_muted = Some(TRUE)
        /\ calls[1].remote_devices[i].client_decoded_height = None
        /\ 2 \in DOMAIN calls[1].last_height_by_track_id
-----------------------------------------------------------------------------
(* The ring id of an era *)

EraLowerA == [i \in 1..16 |-> IF i = 16 THEN "a" ELSE "0"]
EraUpperA == [i \in 1..16 |-> IF i = 16 THEN "A" ELSE "0"]
EraF == [i \in 1..16 |-> "f"]
EraPlus == [i \in 1..16 |-> IF i = 1 THEN "+" ELSE "1"]
Era01 == [i \in 1..16 |-> IF i = 1 THEN "0" ELSE "1"]
Mesozoic == <<"m", "e", "s", "o", "z", "o", "i", "c">>
SixteenLetters == [i \in 1..16 |-> "g"]

\* The eras of the join responses: sixteen hexadecimal digits (the era of
\* all zeros, the era of all f, one number in both cases of its letters, one
\* number with a zero and with a plus sign in front) and eras that are not.
RingEras == {Era1, Era0, EraF, EraLowerA, EraUpperA, EraPlus, Era01, Mesozoic, SixteenLetters}

\* The creator and the era of a join response: the local user with any of
\* the eras, another user, nobody.
RingCreatorsAndEras ==
    { [creator |-> Some(SelfUser), era_id |-> era_id] : era_id \in RingEras }
        \cup { [creator |-> Some("u2"), era_id |-> Era1], [creator |-> None, era_id |-> Era1] }

\* The rosters of the peeks: nobody, one other device.
RingPeeks ==
    { PeekOk(PeekInfo(<<>>, <<>>, None, None, None)),
      PeekOk(PeekInfo(<<Device2>>, <<>>, Some("u2"), Some(Era1), None)) }

\* One Call connects, joins, rings and leaves; the SFU answers its joins
\* with any creator and era, and tells it of another device that comes and
\* goes.
NextRings ==
    \E c \in {1} :
        \/ Connect(c)
        \/ Join(c)
        \/ Leave(c)
        \/ Ring(c)
        \/ \E request \in calls[c].join_requests, j \in RingCreatorsAndEras :
              SfuJoined(c, request, LocalDemuxId, j.creator, j.era_id, TRUE, TRUE, TRUE)
        \/ \E result \in RingPeeks : SetPeekResult(c, result, TRUE, TRUE)

\* One Call, as constructed.
InitRings ==
    /\ calls = [c \in {1} |-> WithHistory(InitialCall("SignalGroup", None), "rings")]
    /\ busy = FALSE
    /\ now = 0

SpecRings == InitRings /\ [][NextRings]_vars

\* The ring state a Joining Call takes when the join response names the
\* local user the creator and the era.
RingStateOfEra(c, era_id) ==
    update_ring_state(Before(c), Some(SelfUser), era_id).outgoing_ring_state

SixteenHexDigits(era_id) ==
    Len(era_id) = 16 /\ \A i \in 1..16 : IsHex(era_id[i])

\* The 64 bits of the number the sixteen digits write, four bits a digit; the
\* same bits are the i64 the u64 is reinterpreted as.
Unsigned64(era_id) == [i \in 1..16 |-> HexValue(era_id[i])]

ZeroAsMinusOne(bits) == IF \A i \in 1..16 : bits[i] = 0 THEN MinusOne ELSE bits

RingIdOfDigits(era_id) == [hex |-> ZeroAsMinusOne(Unsigned64(era_id)), sha |-> <<>>]

HoldsRingId(ring_state) == ring_state.tag \in {"PermittedToRing", "HasSentRing"}

\* The Call awaits the join response in whose answer the ring id is derived
\* and stored: no ring is waiting to be sent with it.
AwaitsJoinResponse(c) ==
    /\ ~calls[c].stopped
    /\ calls[c].join_state.tag = "Joining"
    /\ calls[c].outgoing_ring_state.tag /= "WantsToRing"
    /\ calls[c].join_requests /= {}

\* Two eras write the same number: both are read by u64::from_str_radix and
\* give the same 64 bits once 0 has become -1.
SameNumber(x, y) ==
    /\ ParsesAsHex(x) /\ ParsesAsHex(y)
    /\ ZeroAsMinusOne(HexDigits(x)) = ZeroAsMinusOne(HexDigits(y))

\* Two eras of sixteen digits of which one writes 0 and the other -1.
ZeroAndMinusOne(x, y) ==
    /\ SixteenHexDigits(x) /\ SixteenHexDigits(y)
    /\ {Unsigned64(x), Unsigned64(y)} = {[i \in 1..16 |-> 0], MinusOne}

-----------------------------------------------------------------------------
(* The ring a Call is asked to join for *)

ProvideRingIdIfAbsent(c, ring_id) == Run(c, provide_ring_id_if_absent(Before(c), ring_id))

\* The rings of two eras.
RingIds == {from_era_id(Era1), from_era_id(EraF)}

\* The first Call is constructed with or without a ring id, and the user id
\* of the local user is known or not (self_uuid is an Option behind a mutex);
\* the other Calls of the call manager are there to hold the busy flag.
InitRingIds ==
    /\ \E self_uuid \in {Some(SelfUser), None},
           ring_id \in {None} \cup {Some(r) : r \in RingIds} :
          calls = [c \in CallIds |->
                      [InitialCall("SignalGroup", IF c = 1 THEN ring_id ELSE None)
                          EXCEPT !.self_uuid = self_uuid]]
    /\ busy = FALSE
    /\ now = 0

\* The roster of a call that is full with one device.
FullPeek == PeekOk(PeekInfo(<<Device2>>, <<>>, Some("u2"), Some(Era1), Some(1)))

NextRingIds ==
    \/ \E c \in {1} :
          \/ Connect(c)
          \/ \E ring_id \in RingIds : ProvideRingIdIfAbsent(c, ring_id)
          \/ \E request \in calls[c].join_requests :
                SfuJoined(c, request, LocalDemuxId, None, Era1, TRUE, TRUE, TRUE)
          \/ /\ calls[c].join_state.tag = "NotJoined"
             /\ SetPeekResult(c, FullPeek, TRUE, TRUE)
    \/ \E c \in CallIds :
          \/ Join(c)
          \/ Leave(c)

SpecRingIds == InitRingIds /\ [][NextRingIds]_vars

\* The Accepted ring responses among the emissions, and those of them for
\* the ring id that go to the user.
RingResponses(out) ==
    {i \in Emitted(out, "send_signaling_message") : out[i].arg.message.type = "RingResponse"}

AcceptedFor(out, ring_id, user) ==
    {i \in RingResponses(out) :
        /\ out[i].arg.to = user
        /\ out[i].arg.message.ring_id = ring_id
        /\ out[i].arg.message.response = "Accepted"}

\* provide_ring_id_if_absent stores the ring id in NotJoined without one, and
\* changes nothing otherwise; it emits nothing.
C25_Provide(before, after, ring_id) ==
    /\ after.out = <<>>
    /\ IF before.join_state = NotJoined(None)
       THEN after = [before EXCEPT !.join_state = NotJoined(Some(ring_id))]
       ELSE after = before

\* A join that proceeds (the Call is Joining after it) accepts the stored
\* ring once, towards the local user, if the user id is known; any other
\* join accepts nothing.
C25_Join(before, after) ==
    IF after.join_state.tag = "Joining" /\ before.join_state.tag = "NotJoined"
           /\ IsSome(before.join_state.ring_id) /\ IsSome(before.self_uuid)
    THEN /\ Cardinality(RingResponses(after.out)) = 1
         /\ AcceptedFor(after.out, Unwrap(before.join_state.ring_id),
                        Unwrap(before.self_uuid)) /= {}
    ELSE RingResponses(after.out) = {}

\* A leave from Joining or Joined ends in NotJoined without a ring id; a
\* leave in NotJoined keeps the join state, the stored ring id with it.
C25_Leave(before, after) ==
    /\ RingResponses(after.out) = {}
    /\ IF before.join_state.tag = "NotJoined"
       THEN after.join_state = before.join_state
       ELSE after.join_state = NotJoined(None)

\* C25: provide_ring_id_if_absent(r) stores r only when the join state is
\* NotJoined with no ring id; a ring id already stored is kept; while Joining
\* or Joined the call is ignored.  The next join that proceeds sends exactly
\* one Accepted ring response for the stored id to the local user if the user
\* id of the local user is known, and none when no id is stored or the user
\* id is unknown; the Call holds no ring id while Joining or Joined, a leave
\* from there ends in NotJoined without one, and a leave while NotJoined
\* keeps the stored id.
C25_RingIdProvided ==
    \A c \in DOMAIN calls :
        ~calls[c].stopped =>
            /\ \A ring_id \in RingIds :
                   C25_Provide(Before(c), provide_ring_id_if_absent(Before(c), ring_id), ring_id)
            /\ C25_Join(Before(c), join(Before(c)))
            /\ C25_Leave(Before(c), leave_inner(Before(c)))
            /\ calls[c].join_state.tag /= "NotJoined" => ~IsSome(calls[c].join_state.ring_id)

\* A Call that holds the ring of the first era is given the ring of the
\* second, while another Call is Joining for a ring of its own.
C25_Witness ==
    \E c, d \in DOMAIN calls :
        /\ calls[c].join_state = NotJoined(Some(from_era_id(Era1)))
        /\ ~calls[c].stopped
        /\ AcceptedFor(join(Before(c)).out, from_era_id(Era1), SelfUser) = {}
        /\ calls[d].join_state.tag = "Joining"
        /\ calls[d].self_uuid = Some(SelfUser)

\* The claim as it is stated: every join that proceeds with a stored id sends
\* the Accepted response, and a leave clears the stored id.
C25_AsStated ==
    \A c \in DOMAIN calls :
        ~calls[c].stopped =>
            /\ (join(Before(c)).join_state.tag = "Joining"
                    /\ calls[c].join_state.tag = "NotJoined"
                    /\ IsSome(calls[c].join_state.ring_id))
                => Cardinality(RingResponses(join(Before(c)).out)) = 1
            /\ ~IsSome(leave_inner(Before(c)).join_state.ring_id)

-----------------------------------------------------------------------------
(* The join response and the states it arrives in *)

\* The Call as the handler of a successful join response finds it, and as it
\* leaves it when the peer connection starts.
BeforeJoined(c, request) == [Before(c) EXCEPT !.join_requests = @ \ {request}]

AfterJoined(c, request) ==
    on_sfu_client_joined(
        BeforeJoined(c, request),
        [ok |-> TRUE, request |-> request, local_demux_id |-> LocalDemuxId,
         creator |-> None, era_id |-> Era1],
        TRUE, TRUE, TRUE)

\* What the response does when it is acted on.
ActedOn(before, after, request) ==
    /\ after.dhe_state = DheNegotiated(before.dhe_state.secret, request)
    /\ Emitted(after.out, "peer_connection.set_descriptions") /= {}
    /\ after.sfu_info = Some(request)
    /\ after.join_state = Joined(LocalDemuxId)

\* C26: a successful SFU joined response is acted on only when the Call is
\* both Connecting and Joining: then the SRTP keys are negotiated, the peer
\* connection is started and the join state becomes Joined(local demux id);
\* in every other combination of connection state and join state the
\* response changes nothing of the Call and emits nothing.
C26_AsStated ==
    \A c \in DOMAIN calls : \A request \in calls[c].join_requests :
        ~calls[c].stopped =>
            IF calls[c].connection_state = "Connecting" /\ calls[c].join_state.tag = "Joining"
            THEN ActedOn(BeforeJoined(c, request), AfterJoined(c, request), request)
            ELSE AfterJoined(c, request) = BeforeJoined(c, request)

\* What the handler does: the connection arm runs whenever the Call is
\* Connecting and the join arm whenever it is Joining, each without looking
\* at the other state; only a response that finds the Call neither Connecting
\* nor Joining changes nothing.
C26_TwoArms ==
    \A c \in DOMAIN calls : \A request \in calls[c].join_requests :
        ~calls[c].stopped =>
            /\ (calls[c].connection_state /= "Connecting" /\ calls[c].join_state.tag /= "Joining")
                   => AfterJoined(c, request) = BeforeJoined(c, request)
            /\ (calls[c].connection_state /= "Connecting" /\ calls[c].join_state.tag = "Joining")
                   => /\ AfterJoined(c, request).join_state = Joined(LocalDemuxId)
                      /\ AfterJoined(c, request).dhe_state = calls[c].dhe_state
                      /\ Emitted(AfterJoined(c, request).out, "peer_connection.set_descriptions") = {}
            /\ (calls[c].connection_state = "Connecting" /\ calls[c].join_state.tag /= "Joining")
                   => /\ AfterJoined(c, request).join_state = calls[c].join_state
                      /\ \/ /\ AfterJoined(c, request).dhe_state.tag = "Negotiated"
                            /\ Emitted(AfterJoined(c, request).out,
                                       "peer_connection.set_descriptions") /= {}
                         \/ AfterJoined(c, request).ended /= <<>>



-----------------------------------------------------------------------------
(* The ring a leave cancels *)

CancelledByLeave(c) ==
    {i \in GroupMessages(leave_inner(Before(c)).out) :
        leave_inner(Before(c)).out[i].arg.type = "Cancelled"}

RemembersRing(c) == calls[c].outgoing_ring_state.tag = "HasSentRing"

\* A leave cancels the ring the Call remembers, once, and nothing else.
C27_Leave(c) ==
    IF RemembersRing(c)
    THEN /\ Cardinality(CancelledByLeave(c)) = 1
         /\ GroupMessagesOf(leave_inner(Before(c)).out, "Cancelled",
                            calls[c].outgoing_ring_state.ring_id) /= {}
    ELSE CancelledByLeave(c) = {}

\* The Call remembers a ring only if it has sent one and is alone.
C27_Remembered(c) ==
    RemembersRing(c) => calls[c].ring_sent /\ calls[c].remote_devices = <<>>

\* The Call starts to remember a ring in the step that sends it to an empty
\* call, and stops in the step that brings a remote device or completes a
\* join whose response names a creator.
C27_Step(c) ==
    /\ (RemembersRing(c)' /\ ~RemembersRing(c)) =>
           /\ calls[c].outgoing_ring_state.tag \in {"PermittedToRing", "WantsToRing"}
           /\ calls'[c].remote_devices = <<>>
    /\ (RemembersRing(c) /\ ~RemembersRing(c)') =>
           \/ calls'[c].remote_devices /= <<>>
           \/ calls[c].join_state.tag = "Joining" /\ calls'[c].join_state.tag = "Joined"
    /\ (calls[c].outgoing_ring_state.tag = "PermittedToRing"
            /\ calls'[c].outgoing_ring_state = NotPermittedToRing
            /\ calls'[c].ring_sent /\ ~calls[c].ring_sent) =>
           calls[c].remote_devices /= <<>>

\* C27: a leave emits a Cancelled ring intention if and only if the Call
\* remembers a ring it has sent (HasSentRing): it sent the ring while the
\* call was empty of other devices, and since then no other device has
\* appeared in the roster and no join response that names a creator has
\* completed a join; the Cancelled carries the id of that ring.
C27_CancelsRememberedRing ==
    /\ [](\A c \in DOMAIN calls : ~calls[c].stopped => C27_Leave(c) /\ C27_Remembered(c))
    /\ [][\A c \in DOMAIN calls : C27_Step(c)]_vars

\* The Call rang while alone, and its leave cancels the ring.
C27_Witness ==
    \E c \in DOMAIN calls :
        /\ RemembersRing(c) /\ ~calls[c].stopped
        /\ calls[c].join_state.tag = "Joined"
        /\ CancelledByLeave(c) /= {}

\* The claim as it is stated: the leave cancels exactly when the Call has
\* sent a ring and is alone at the time of the leave.
C27_AsStated ==
    \A c \in DOMAIN calls :
        ~calls[c].stopped =>
            (CancelledByLeave(c) /= {}
                <=> (calls[c].ring_sent /\ calls[c].remote_devices = <<>>))



-----------------------------------------------------------------------------
(* The ring state a join completes with *)

JoinCompleted(c, request, j) ==
    on_sfu_client_joined(BeforeJoined(c, request),
                         JoinResponse(request, j.creator, j.era_id), TRUE, TRUE, TRUE)

\* The ring state the completed join made of the ring state it found.  The
\* roster replayed first takes the memory of a ring sent to an empty call.
RingStateDecided(before, after, j) ==
    CASE j.creator = Some(SelfUser) ->
           IF before.outgoing_ring_state.tag = "WantsToRing"
           THEN /\ SentOnce(after, "Ring", from_era_id(j.era_id))
                /\ after.outgoing_ring_state =
                       IF after.remote_devices = <<>> THEN HasSentRing(from_era_id(j.era_id))
                       ELSE NotPermittedToRing
           ELSE /\ after.outgoing_ring_state = PermittedToRing(from_era_id(j.era_id))
                /\ GroupMessages(after.out) = {}
      [] IsSome(j.creator) /\ j.creator /= Some(SelfUser) ->
           /\ after.outgoing_ring_state = NotPermittedToRing
           /\ GroupMessages(after.out) = {}
      [] OTHER ->
           /\ after.outgoing_ring_state =
                  IF before.outgoing_ring_state.tag = "HasSentRing"
                         /\ after.remote_devices /= <<>>
                  THEN NotPermittedToRing
                  ELSE before.outgoing_ring_state
           /\ GroupMessages(after.out) = {}

CompletesJoin(c, request, j) ==
    /\ ~calls[c].stopped
    /\ calls[c].join_state.tag = "Joining"
    /\ JoinCompleted(c, request, j).join_state.tag = "Joined"

-----------------------------------------------------------------------------
(* When the Call asks the SFU for the roster *)

\* Steps that the clock of the polling Call may run.
MaxPollSteps == 6

\* The clock of the polling Call runs in halves of the time after which a
\* peek is asked again.
PollClockStep == PEEK_RETRY_AFTER \div 2

PollClockAdvances ==
    /\ now + PollClockStep <= MaxPollSteps * PollClockStep
    /\ now' = now + PollClockStep
    /\ UNCHANGED <<calls, busy>>

RemoteDeviceJoinedOrLeft(c) == Run(c, handle_remote_device_joined_or_left(Before(c)))

\* A Call of either kind, once the job that Client::start queues has run.
InitPeeks ==
    /\ now = 0
    /\ busy = FALSE
    /\ \E kind \in {"SignalGroup", "CallLinks"} :
          calls = [c \in {1} |->
                      Committed(request_remote_devices_as_soon_as_possible(
                                    WithHistory(InitialCall(kind, None), "peeks")))]

\* The answers of the SFU to a peek: an empty call, an error.
PeekAnswers == {PeekOk(PeekInfo(<<>>, <<>>, None, None, None)), PeekErr}

\* The Call connects and ticks while the clock runs and the SFU answers or
\* keeps silent; the membership proof arrives and the SFU says that a device
\* joined or left.
NextPeeks ==
    \/ \E c \in {1} :
          \/ Connect(c)
          \/ Tick(c)
          \/ \E result \in PeekAnswers : SetPeekResult(c, result, TRUE, TRUE)
          \/ SetMembershipProof(c)
          \/ RemoteDeviceJoinedOrLeft(c)
    \/ PollClockAdvances

SpecPeeks == InitPeeks /\ [][NextPeeks]_vars

\* The condition of the claim for a request of the given maximal age.
ShouldPeek(st, max_age) ==
    \/ st.tag = "NeverRequested"
    \/ st.tag = "Updated" /\ now >= st.at + max_age
    \/ st.tag = "Requested" /\ now > st.at + 5000
    \/ st.tag = "Failed" /\ now > st.at + 5000

\* The job asks once and leaves Requested(now, false) if the condition
\* holds, and does not ask if it does not.
PeeksIff(before, after, max_age) ==
    IF ShouldPeek(before.remote_devices_request_state, max_age)
    THEN /\ Peeks(after) = 1
         /\ after.remote_devices_request_state = ReqRequested(now, FALSE)
         /\ after.last_peek_at = Some(now)
    ELSE /\ Peeks(after) = 0
         /\ after.last_peek_at = before.last_peek_at
         /\ after.remote_devices_request_state.tag = before.remote_devices_request_state.tag
         /\ after.remote_devices_request_state.at = before.remote_devices_request_state.at

C29_Requests(c) ==
    ~calls[c].stopped =>
        /\ PeeksIff(Before(c), tick(Before(c)), 10000)
        /\ PeeksIff(Before(c), handle_remote_device_joined_or_left(Before(c)), 0)

\* A tick that asks, the one that connect runs included, comes more than 5 s
\* after the Call last asked.
TickJobs(c) ==
    {connect(Before(c))}
        \cup (IF calls[c].ticks_scheduled > 0
              THEN {tick([Before(c) EXCEPT !.ticks_scheduled = @ - 1])}
              ELSE {})

C29_TickStep(c) ==
    \A after \in TickJobs(c) :
        (calls'[c] = Committed(after) /\ Peeks(after) > 0 /\ IsSome(calls[c].last_peek_at))
            => now > Unwrap(calls[c].last_peek_at) + 5000

\* C29: a tick (maximal age 10 s) or an as-soon-as-possible request (maximal
\* age 0) issues a peek if and only if the request state is NeverRequested, or
\* Updated(at) with now >= at + the maximal age, or Requested(at) with
\* now > at + 5 s, or Failed(at) with now > at + 5 s; issuing the peek sets
\* the state to Requested(now, false); and a tick never issues a peek within
\* 5 s of the peek the Call issued last.
C29_PeekIssued ==
    /\ [](\A c \in DOMAIN calls : C29_Requests(c))
    /\ [][\A c \in DOMAIN calls : C29_TickStep(c)]_vars

\* The SFU kept silent, and after more than five seconds the tick has asked
\* again.
C29_Witness ==
    \E c \in DOMAIN calls :
        /\ calls[c].remote_devices_request_state = ReqRequested(3 * PollClockStep, FALSE)
        /\ calls[c].last_peek_at = Some(3 * PollClockStep)
        /\ calls[c].connection_state = "Connecting"


-----------------------------------------------------------------------------
(* The requests that wait for the peek in flight *)

\* The Call after the SFU has told it that a device joined or left.
Triggered(c) == handle_remote_device_joined_or_left(Before(c))

PeekOutstanding(c) == calls[c].remote_devices_request_state.tag = "Requested"

KnowsItsProof(c) == calls[c].remote_devices_request_state.tag /= "WaitingForMembershipProof"

\* C30: no as-soon-as-possible trigger is lost: a trigger (here the SFU's
\* notification that a device joined or left) issues a peek at once if no
\* peek is outstanding, and otherwise sets shouldRequestAgain, and the peek
\* is issued when the outstanding peek completes, whatever its result.
C30_AsStated ==
    \A c \in DOMAIN calls :
        (~calls[c].stopped /\ KnowsItsProof(c)) =>
            IF PeekOutstanding(c)
            THEN /\ Triggered(c).remote_devices_request_state.should_request_again
                 /\ \A result \in PeekAnswers :
                        Peeks(set_peek_result_inner(
                                  [Triggered(c) EXCEPT !.out = <<>>], result, TRUE, TRUE)) = 1
            ELSE Peeks(Triggered(c)) = 1

\* What the code does with the trigger: it peeks at once in NeverRequested,
\* in Updated, and in Failed or Requested of more than 5 s ago; within 5 s of
\* a failure it does nothing; within 5 s of a request it sets
\* shouldRequestAgain, which an answer with a roster turns into one peek and
\* an answer with an error drops.
C30_WhatHolds ==
    \A c \in DOMAIN calls :
        (~calls[c].stopped /\ KnowsItsProof(c)) =>
            IF ShouldPeek(calls[c].remote_devices_request_state, 0)
            THEN Peeks(Triggered(c)) = 1
            ELSE /\ Peeks(Triggered(c)) = 0
                 /\ IF PeekOutstanding(c)
                    THEN /\ Triggered(c).remote_devices_request_state.should_request_again
                         /\ \A result \in PeekAnswers :
                                Peeks(set_peek_result_inner(
                                          [Triggered(c) EXCEPT !.out = <<>>], result, TRUE, TRUE))
                                    = IF result.ok THEN 1 ELSE 0
                         /\ set_peek_result_inner(Triggered(c), PeekErr, TRUE, TRUE)
                                .remote_devices_request_state = ReqFailed(now)
                    ELSE Triggered(c) = Before(c)


-----------------------------------------------------------------------------
(* C31: the remote devices carried over by a roster update *)

\* The rosters: one device, that device after a second one with the local
\* device between them, and a demux id now of another user beside a device
\* of no member.
CarryOverPeeks ==
    { PeekInfo(devices, <<>>, None, Some(Era1), None) :
        devices \in { <<Device2>>, <<Device3, LocalDevice, Device2>>,
                      <<PeekDevice(2, Some("u3")), PeekDevice(3, None)>> } }

\* One Call that connects, joins once and leaves while the roster changes,
\* time passes and the SFU says who speaks.
NextCarryOver ==
    \E c \in {1} :
        \/ Connect(c)
        \/ calls[c].joins_issued = 0 /\ Join(c)
        \/ Leave(c)
        \/ \E request \in calls[c].join_requests :
              SfuJoined(c, request, LocalDemuxId, None, Era1, TRUE, TRUE, TRUE)
        \/ \E peek_info \in CarryOverPeeks : SetPeekResult(c, PeekOk(peek_info), TRUE, TRUE)
        \/ SpeakerReceived(c, 1, 2)
        \/ SecondPasses

SpecCarryOver == Init /\ [][NextCarryOver]_vars

\* The devices of a peek that become remote devices: those of a member,
\* other than the local device.
ListedAsRemote(s, peek_info) ==
    SelectSeq(peek_info.devices,
              LAMBDA d : IsSome(d.user_id) /\ d.demux_id /= s.join_state.demux_id)

\* The entries of a list that are a pair of demux id and user id.
EntriesOf(remote_devices, d) ==
    {i \in 1..Len(remote_devices) :
        /\ remote_devices[i].demux_id = d.demux_id
        /\ remote_devices[i].user_id = Unwrap(d.user_id)}

\* The list the claim describes: an entry whose pair was in the list as it
\* was, and every other one as new.
CarriedOver(s, peek_info) ==
    LET listed == ListedAsRemote(s, peek_info)
    IN [i \in 1..Len(listed) |->
          IF EntriesOf(s.remote_devices, listed[i]) /= {}
          THEN s.remote_devices[CHOOSE j \in EntriesOf(s.remote_devices, listed[i]) : TRUE]
          ELSE RemoteDeviceState(listed[i].demux_id, Unwrap(listed[i].user_id), now)]

DemuxIdsChanges(out) ==
    {i \in Emitted(out, "handle_remote_devices_changed") :
        out[i].arg.reason = "DemuxIdsChanged"}

\* C31: after a peek is applied while Joined with the DHE negotiated, the
\* remote devices are the devices of the peek that have a user id, without
\* the local demux id, in the order of the peek; an entry whose pair of demux
\* id and user id was in the list keeps its state, every other one is new
\* with added_time now; DemuxIdsChanged is emitted exactly when the set of
\* demux ids changed.  A peek applied while not Joined leaves the list as it
\* was.
C31_CarriedOver ==
    \A c \in DOMAIN calls : \A peek_info \in CarryOverPeeks :
        LET before == Before(c)
            after == set_peek_result_inner(before, PeekOk(peek_info), TRUE, TRUE)
        IN IF before.join_state.tag = "Joined" /\ before.dhe_state.tag = "Negotiated"
           THEN /\ after.remote_devices = CarriedOver(before, peek_info)
                /\ Cardinality(DemuxIdsChanges(after.out))
                       = IF demux_id_set(after.remote_devices)
                                /= demux_id_set(before.remote_devices)
                         THEN 1 ELSE 0
           ELSE /\ after.remote_devices = before.remote_devices
                /\ DemuxIdsChanges(after.out) = {}

\* A Joined Call whose roster update kept a device that had spoken, with the
\* time it was added at, and made the other one anew.
C31_Witness ==
    \E c \in DOMAIN calls :
        /\ calls[c].join_state.tag = "Joined"
        /\ calls[c].dhe_state.tag = "Negotiated"
        /\ Len(calls[c].remote_devices) = 2
        /\ calls[c].remote_devices[1].demux_id = 3
        /\ calls[c].remote_devices[1].added_time = now
        /\ calls[c].remote_devices[2].demux_id = 2
        /\ calls[c].remote_devices[2].added_time < now
        /\ IsSome(calls[c].remote_devices[2].speaker_time)

-----------------------------------------------------------------------------
(* C32, C33: the rotation of the media send key and its delayed apply *)

\* The rosters: one user, and a second one who comes and goes.
RekeyingPeeks ==
    { PeekOk(PeekInfo(devices, <<>>, None, Some(Era1), None)) :
        devices \in { <<Device2>>, <<Device2, Device3>> } }

\* One Call that connects, joins once and leaves while a user comes and
\* goes, and the actor runs its delayed jobs when they are due.
NextRekeying ==
    \E c \in {1} :
        \/ Connect(c)
        \/ calls[c].joins_issued = 0 /\ Join(c)
        \/ Leave(c)
        \/ \E request \in calls[c].join_requests :
              SfuJoined(c, request, LocalDemuxId, None, Era1, TRUE, TRUE, TRUE)
        \/ \E result \in RekeyingPeeks : SetPeekResult(c, result, TRUE, TRUE)
        \/ TimePasses(c)
        \/ DelayedJob(c)

SpecRekeying == Init /\ [][NextRekeying]_vars




\* The media keys a job sent over signaling.
KeysSent(out) ==
    {out[i].arg : i \in {j \in Emitted(out, "send_signaling_message") :
                            out[j].arg.message.type = "MediaKey"}}

\* The rotation a job started: a secret never used before is pending, was
\* sent once at ratchet counter 0 to the users of the roster if the Call is
\* Joined, and is what the newly queued job will apply.
StartsRotation(before, after, delayed) ==
    LET secret == after.media_send_key_rotation_state.secret
        sent == {k \in KeysSent(after.out) : k.message.secret.base = secret}
    IN /\ after.media_send_key_rotation_state.tag = "Pending"
       /\ ~after.media_send_key_rotation_state.needs_another_rotation
       /\ after.secrets_generated = before.secrets_generated + 1
       /\ secret > before.secrets_generated
       /\ secret /= before.send_secret.base
       /\ after.delayed = Append(delayed,
              [job |-> "apply_media_send_key",
               due |-> now + MEDIA_SEND_KEY_ROTATION_DELAY_SECS * 1000,
               secret |-> secret])
       /\ \A k \in sent : k.message.ratchet_counter = 0 /\ k.message.secret.step = 0
       /\ {k.to : k \in sent}
              = IF after.join_state.tag = "Joined" THEN UsersOf(after.remote_devices) ELSE {}
       /\ Cardinality({i \in Emitted(after.out, "send_signaling_message") :
                          after.out[i].arg.message.type = "MediaKey"
                              /\ after.out[i].arg.message.secret.base = secret})
              = Cardinality(sent)

\* A roster update of a Joined Call that removes a user.
C32_RosterUpdate(c, result) ==
    LET before == Before(c)
        after == set_peek_result_inner(before, result, TRUE, TRUE)
    IN (/\ before.join_state.tag = "Joined"
        /\ before.dhe_state.tag = "Negotiated"
        /\ before.joined_members \ UserIdsOf(result.peek_info.devices) /= {})
       => IF before.media_send_key_rotation_state.tag = "Applied"
          THEN /\ StartsRotation(before, after, before.delayed)
               /\ after.send_secret.base = before.send_secret.base
          ELSE /\ after.media_send_key_rotation_state
                      = RotationPending(before.media_send_key_rotation_state.secret, TRUE)
               /\ after.secrets_generated = before.secrets_generated
               /\ after.delayed = before.delayed
               /\ after.send_secret.base = before.send_secret.base
               /\ \A k \in KeysSent(after.out) :
                     k.message.secret.base
                         \in {before.send_secret.base,
                              before.media_send_key_rotation_state.secret}

\* The delayed apply.
C32_Apply(c) ==
    calls[c].delayed /= <<>> =>
        LET before == Before(c)
            after == first_delayed_job(before)
        IN /\ after.send_secret = [base |-> Head(before.delayed).secret, step |-> 0]
           /\ after.send_counter = 0
           /\ IF before.media_send_key_rotation_state.tag = "Pending"
                     /\ before.media_send_key_rotation_state.needs_another_rotation
              THEN StartsRotation(before, after, Tail(before.delayed))
              ELSE /\ after.media_send_key_rotation_state = RotationApplied
                   /\ after.delayed = Tail(before.delayed)
                   /\ after.secrets_generated = before.secrets_generated
                   /\ KeysSent(after.out) = {}

\* C32: a roster update while Joined that removes a user generates, if no
\* rotation is pending, a fresh secret, sets Pending(secret, false) and
\* sends the secret at once at ratchet counter 0 to every remaining user,
\* without resetting the send ratchet before the delayed apply; if a
\* rotation is pending it generates and sends no new secret and only sets
\* needs_another_rotation.  The delayed apply resets the send ratchet to the
\* secret and returns to Applied, and starts a new rotation at once if
\* needs_another_rotation was set.
C32_Rotation ==
    \A c \in DOMAIN calls :
        /\ \A result \in RekeyingPeeks : C32_RosterUpdate(c, result)
        /\ C32_Apply(c)
        /\ calls[c].media_send_key_rotation_state.tag = "Pending" =>
               calls[c].send_secret.base /= calls[c].media_send_key_rotation_state.secret

\* The second rotation, started by the delayed apply of the first one, is
\* pending while the Call sends under the first rotated secret.
C32_Witness ==
    \E c \in DOMAIN calls :
        /\ calls[c].join_state.tag = "Joined"
        /\ calls[c].secrets_generated = 2
        /\ calls[c].send_secret = [base |-> 1, step |-> 0]
        /\ calls[c].media_send_key_rotation_state = RotationPending(2, FALSE)
        /\ \E k \in calls[c].media_keys_sent : k.secret.base = 2

\* C33: at most one delayed apply job is outstanding; one is outstanding
\* exactly when the rotation state is Pending, and the secret it will apply
\* is the Pending secret.
C33_OneApplyOutstanding ==
    \A c \in DOMAIN calls :
        /\ Len(calls[c].delayed) <= 1
        /\ calls[c].delayed /= <<>>
               <=> calls[c].media_send_key_rotation_state.tag = "Pending"
        /\ calls[c].delayed /= <<>> =>
               Head(calls[c].delayed).secret = calls[c].media_send_key_rotation_state.secret

\* A Call that has left with a rotation asked for twice, whose one job is
\* still to run.
C33_Witness ==
    \E c \in DOMAIN calls :
        /\ calls[c].join_state.tag = "NotJoined"
        /\ calls[c].media_send_key_rotation_state.tag = "Pending"
        /\ calls[c].media_send_key_rotation_state.needs_another_rotation
        /\ Len(calls[c].delayed) = 1
-----------------------------------------------------------------------------
(* C34: a higher resolution is pending when the SFU allocates more than *)
(* the client has decoded                                               *)

\* The rosters: one device, and a second one before it.
ResolutionPeeks ==
    { PeekOk(PeekInfo(devices, <<>>, None, Some(Era1), None)) :
        devices \in { <<Device2>>, <<Device3, Device2>> } }

\* CurrentDevices messages: no video, and the video of one device at two
\* heights.
ResolutionMessages ==
    { [demux_ids_with_video |-> <<>>, allocated_heights |-> <<>>],
      [demux_ids_with_video |-> <<2>>, allocated_heights |-> <<240>>],
      [demux_ids_with_video |-> <<2>>, allocated_heights |-> <<120>>] }

\* Heartbeats with the video on and muted.
ResolutionHeartbeats ==
    { HeartbeatState(None, Some(muted), None, None) : muted \in BOOLEAN }

\* One Call that connects and joins while the roster changes, the SFU says
\* which videos it forwards, video frames are decoded and a device mutes
\* its video.
NextResolution ==
    \E c \in {1} :
        \/ Connect(c)
        \/ Join(c)
        \/ \E request \in calls[c].join_requests :
              SfuJoined(c, request, LocalDemuxId, None, Era1, TRUE, TRUE, TRUE)
        \/ \E result \in ResolutionPeeks : SetPeekResult(c, result, TRUE, TRUE)
        \/ \E m \in ResolutionMessages :
              ForwardingVideoReceived(c, m.demux_ids_with_video, m.allocated_heights)
        \/ \E height \in FrameHeights : IncomingVideoFrame(c, 2, height)
        \/ \E timestamp \in 1..MaxTimestamp, heartbeat \in ResolutionHeartbeats :
              HeartbeatReceived(c, 2, timestamp, heartbeat)

SpecResolution == Init /\ [][NextResolution]_vars

\* C34: for every remote device, in every reachable state,
\* is_higher_resolution_pending holds exactly when server_allocated_height
\* is greater than client_decoded_height, an absent height counting as 0.
C34_PendingIffAllocatedHigher ==
    \A c \in DOMAIN calls : \A i \in 1..Len(calls[c].remote_devices) :
        LET device == calls[c].remote_devices[i]
        IN device.is_higher_resolution_pending
               <=> device.server_allocated_height >
                       (IF device.client_decoded_height = None THEN 0
                        ELSE Unwrap(device.client_decoded_height))

\* A device that was allocated 120 lines after its frames of 240 lines were
\* decoded, its video not muted: no higher resolution is pending.
C34_Witness ==
    \E c \in DOMAIN calls : \E i \in 1..Len(calls[c].remote_devices) :
        /\ calls[c].remote_devices[i].server_allocated_height = 120
        /\ calls[c].remote_devices[i].client_decoded_height = Some(240)
        /\ ~calls[c].remote_devices[i].is_higher_resolution_pending
        /\ calls[c].remote_devices[i].heartbeat_state.video_muted = Some(FALSE)

-----------------------------------------------------------------------------
(* C35: send rates that are computed again *)

\* What a job did to put send rates in force: the calls of
\* PeerConnection::set_send_rates and of handle_send_rates_changed.
RatesApplied(out) ==
    Emitted(out, "peer_connection.set_send_rates")
        \cup Emitted(out, "handle_send_rates_changed")

\* C35: applying send rates is idempotent: handle_send_rates_changed is
\* emitted, and the media engine reconfigured, only when the newly computed
\* rates differ from those in force; computing the same rates again emits
\* nothing.
C35_AsStated ==
    \A c \in DOMAIN calls : \A sharing_screen \in BOOLEAN :
        LET before == Before(c)
            send_rates == compute_send_rates(Cardinality(before.joined_members),
                                             sharing_screen)
            after == set_sharing_screen(before, sharing_screen, TRUE)
        IN before.send_rates_in_force = Some(send_rates) => RatesApplied(after.out) = {}
-----------------------------------------------------------------------------
(* C36: the counters of the two outbound RTP data streams *)

\* Where the counter of a stream stands when the model picks the Call up:
\* at its first message, before the sequence number wraps, and before the
\* counter itself wraps.
CounterStarts == { U32(0, 1), U32(0, U16 - 2), U32(U16 - 1, U16 - 2) }

\* A new Call, or one that has sent messages on its two streams, more on
\* one than on the other.
InitRtpData ==
    /\ \E to_sfu \in CounterStarts, through_sfu \in CounterStarts :
           /\ to_sfu = U32(0, 1) <=> through_sfu = U32(0, 1)
           /\ to_sfu = through_sfu => to_sfu = U32(0, 1)
           /\ calls = [c \in {1} |->
                          [InitialCall("SignalGroup", None)
                             EXCEPT !.rtp_data_to_sfu_next_seqnum = to_sfu,
                                    !.rtp_data_through_sfu_next_seqnum = through_sfu]]
    /\ busy = FALSE
    /\ now = 0

\* The counter k messages later: a u32 in two halves.
CounterPlus(n, k) ==
    U32((n.hi + (n.lo + k) \div U16) % U16, (n.lo + k) % U16)

\* The Call has sent at most MaxSeqnum messages through the SFU since the
\* model picked it up.
FewSentThroughSfu(c) ==
    \E start \in CounterStarts, k \in 0..MaxSeqnum - 1 :
        calls[c].rtp_data_through_sfu_next_seqnum = CounterPlus(start, k)

SharesScreen(c, sharing_screen) ==
    /\ FewSentThroughSfu(c)
    /\ Run(c, set_sharing_screen(Before(c), sharing_screen, TRUE))

\* One Call that connects, joins and leaves, while the application shares
\* its screen and requests video.
NextRtpData ==
    \E c \in {1} :
        \/ Connect(c)
        \/ Join(c)
        \/ Leave(c)
        \/ \E request \in calls[c].join_requests :
              SfuJoined(c, request, LocalDemuxId, None, Era1, TRUE, TRUE, TRUE)
        \/ \E sharing_screen \in BOOLEAN : SharesScreen(c, sharing_screen)
        \/ RequestVideo(c, <<2>>)

SpecRtpData == InitRtpData /\ [][NextRtpData]_vars

\* The RTP packets a job sent with an SSRC, in order.
PacketsOf(out, ssrc) ==
    SelectSeq(out, LAMBDA e : e.cb = "peer_connection.send_rtp" /\ e.arg.ssrc = ssrc)

\* The packets of a stream are numbered from the counter of the stream on,
\* and the counter is left after the last of them.
NumberedFrom(packets, counter, next) ==
    /\ \A k \in 1..Len(packets) :
          /\ packets[k].arg.pt = 101
          /\ packets[k].arg.timestamp = CounterPlus(counter, k - 1)
          /\ packets[k].arg.seqnum = CounterPlus(counter, k - 1).lo
    /\ next = CounterPlus(counter, Len(packets))

\* What a job sent on the two streams.
C36_Job(before, after) ==
    /\ NumberedFrom(PacketsOf(after.out, 1),
                    before.rtp_data_to_sfu_next_seqnum, after.rtp_data_to_sfu_next_seqnum)
    /\ Emitted(after.out, "peer_connection.send_rtp") /= {} =>
           before.join_state.tag = "Joined"
    /\ before.join_state.tag = "Joined" =>
           /\ NumberedFrom(PacketsOf(after.out, before.join_state.demux_id + 13),
                           before.rtp_data_through_sfu_next_seqnum,
                           after.rtp_data_through_sfu_next_seqnum)
           /\ Len(PacketsOf(after.out, 1))
                  + Len(PacketsOf(after.out, before.join_state.demux_id + 13))
                  = Cardinality(Emitted(after.out, "peer_connection.send_rtp"))
    /\ before.join_state.tag /= "Joined" =>
           after.rtp_data_through_sfu_next_seqnum = before.rtp_data_through_sfu_next_seqnum

\* C36: each outbound RTP data stream, SSRC 1 to the SFU and SSRC local
\* demux id + 0xD through the SFU, has its own 32-bit counter that starts at
\* 1 and goes up by one modulo 2^32 per message; every message has payload
\* type 101, the counter as its timestamp and the low 16 bits of the counter
\* as its sequence number; while the Call is not Joined nothing is sent and
\* no counter advances.
C36_Counters ==
    /\ InitialCall("SignalGroup", None).rtp_data_to_sfu_next_seqnum = U32(0, 1)
    /\ InitialCall("SignalGroup", None).rtp_data_through_sfu_next_seqnum = U32(0, 1)
    /\ \A c \in DOMAIN calls :
          /\ C36_Job(Before(c), leave_inner(Before(c)))
          /\ C36_Job(Before(c), request_video(Before(c), <<2>>))
          /\ \A sharing_screen \in BOOLEAN :
                C36_Job(Before(c), set_sharing_screen(Before(c), sharing_screen, TRUE))

\* A Joined Call whose counter to the SFU has wrapped to 0 while the one
\* through the SFU has passed a sequence number of 0.
C36_Witness ==
    \E c \in DOMAIN calls :
        /\ calls[c].join_state.tag = "Joined"
        /\ calls[c].rtp_data_to_sfu_next_seqnum = U32(0, 0)
        /\ calls[c].rtp_data_through_sfu_next_seqnum = U32(1, 1)

-----------------------------------------------------------------------------
(* C37: the order of the DHE states *)

\* How far the key agreement has come.
DheRank(dhe_state) ==
    CASE dhe_state.tag = "NotYetStarted" -> 0
      [] dhe_state.tag = "WaitingForServerPublicKey" -> 1
      [] dhe_state.tag = "Negotiated" -> 2

\* C37: over the whole life of a Call the DHE state only moves forward,
\* from NotYetStarted to WaitingForServerPublicKey to Negotiated; to
\* negotiate in NotYetStarted or a second time changes nothing, and no
\* operation moves the state back from Negotiated.
C37_AsStated ==
    [][\A c \in DOMAIN calls :
          /\ DheRank(calls'[c].dhe_state) >= DheRank(calls[c].dhe_state)
          /\ negotiate(DheNotYetStarted, 1) = DheNotYetStarted
          /\ calls[c].dhe_state.tag = "Negotiated" =>
                 /\ negotiate(calls[c].dhe_state, 2) = calls[c].dhe_state
                 /\ calls'[c].dhe_state = calls[c].dhe_state]_vars
-----------------------------------------------------------------------------
(* C38: the response to a join request that a leave has abandoned *)

\* The join requests the SFU has not answered that are not the last one
\* the Call has issued.
AbandonedRequests(c) ==
    {request \in calls[c].join_requests : request < calls[c].joins_issued}

\* C38: after a join that a leave abandoned and a new join, the Call
\* becomes Joined only through the response to the most recent request: a
\* late response to the abandoned request never sets Joined, never starts
\* the peer connection and never consumes the DHE secret of the new request.
C38_AsStated ==
    \A c \in DOMAIN calls : \A request \in AbandonedRequests(c) :
        LET before == BeforeJoined(c, request)
            after == AfterJoined(c, request)
        IN /\ after.join_state.tag = "Joined" => before.join_state.tag = "Joined"
           /\ Emitted(after.out, "peer_connection.set_descriptions") = {}
           /\ after.dhe_state = before.dhe_state
-----------------------------------------------------------------------------
(* C39: the Cancelled of a ring, and a leave while not joined *)

\* The Call of SpecRings, with the ring ids it has cancelled kept.
InitCancels ==
    /\ calls = [c \in {1} |-> WithHistory(InitialCall("SignalGroup", None), "cancels")]
    /\ busy = FALSE
    /\ now = 0

SpecCancels == InitCancels /\ [][NextRings]_vars

\* C39: for each ring a Call has sent, at most one Cancelled is ever
\* emitted; and a leave while NotJoined emits no message and changes no
\* state.
C39_AsStated ==
    \A c \in DOMAIN calls :
        ~calls[c].stopped =>
            LET after == leave_inner(Before(c))
            IN /\ \A i \in GroupMessages(after.out) :
                     after.out[i].arg.type = "Cancelled"
                         => after.out[i].arg.ring_id \notin calls[c].cancelled
               /\ calls[c].join_state.tag = "NotJoined" =>
                     /\ after.out = <<>>
                     /\ Committed(after) = calls[c]
-----------------------------------------------------------------------------
(* C40: the media send key of the current join reaches every user of the *)
(* roster                                                                 *)

\* The rosters: one device, a second device of the same user, and the first
\* demux id now of another user.
KeysSentPeeks ==
    { PeekOk(PeekInfo(devices, <<>>, None, Some(Era1), None)) :
        devices \in { <<Device2>>, <<Device2, Device2b>>,
                      <<PeekDevice(2, Some("u3")), Device2b>> } }

InitKeysSent ==
    /\ calls = [c \in {1} |-> WithHistory(InitialCall("SignalGroup", None), "keys")]
    /\ busy = FALSE
    /\ now = 0

\* One Call that connects, joins, leaves and joins again while the roster
\* changes.
NextKeysSent ==
    \E c \in {1} :
        \/ Connect(c)
        \/ Join(c)
        \/ Leave(c)
        \/ \E request \in calls[c].join_requests :
              SfuJoined(c, request, LocalDemuxId, None, Era1, TRUE, TRUE, TRUE)
        \/ \E result \in KeysSentPeeks : SetPeekResult(c, result, TRUE, TRUE)

SpecKeysSent == InitKeysSent /\ [][NextKeysSent]_vars

\* C40: whenever the Call is Joined(d) and a roster update has been
\* processed since that join, every user who owns a device of the remote
\* device list has been sent, since that join, a media send key tagged with
\* the local demux id d; that holds after a leave and a new join for the
\* devices that were already in the list, and for a demux id that has gone
\* to another user.
C40_AsStated ==
    \A c \in DOMAIN calls : \A result \in KeysSentPeeks :
        LET after == set_peek_result_inner(Before(c), result, TRUE, TRUE)
        IN (calls[c].join_state.tag = "Joined" /\ after.join_state.tag = "Joined") =>
              \A user_id \in UsersOf(after.remote_devices) :
                  [to |-> user_id, demux_id |-> after.join_state.demux_id]
                      \in after.keys_since_join







=============================================================================
